---- MODULE Spec2Model ----
(***************************************************************************)
(* Model of the slide construction engine of grzlz/infoslides:             *)
(*   - the Slide document and its validation record (models/Slide.js),     *)
(*   - the SlideBuilder base class and its concrete builders               *)
(*     (patterns/SlideBuilder.js and the builders directory),              *)
(*   - the DialogueContent aggregate (models/dialogue),                    *)
(*   - AIService.buildDialogueContent (services/AIService.js),             *)
(*   - BuilderRegistry (registry/BuilderRegistry.js),                      *)
(*   - BuilderFactory and TenantRegistry (factories).                      *)
(* Each subsystem has its own specification over the shared variables.     *)
(***************************************************************************)
EXTENDS Integers, Sequences, FiniteSets, TLC

VARIABLES
    doc,          \* SpecDocument: the Slide under test
    docCleared,   \* history: clearValidation() has run on doc (or on the document it was restored from)
    docOp,        \* SpecDocument: name of the last Slide operation
    nextId,       \* source of fresh ids (generateId of Slide, Speaker, DialogueContent)
    builder,      \* Spec, SpecDialogue: the builder object {kind, slide, buildSteps, dialogueContent}
    lastOp,       \* name of the last builder / aggregate operation called
    lastArg,      \* its speaker-name argument ("" when it has none)
    raised,       \* the error that call threw, "none" when it returned
    ai,           \* SpecAI: the last AIService call, its speakers and the dialogue it returned
    registry,     \* SpecRegistry: BuilderRegistry.registry, slide type -> builder class
    metadata,     \* SpecRegistry: BuilderRegistry.metadata, slide type -> metadata record
    regCall,      \* SpecRegistry: the last BuilderRegistry call and its outcome
    tenants,      \* SpecFactory: TenantRegistry.tenants, tenant id -> customBuilders
    made,         \* SpecFactory: the last BuilderFactory.createBuilder call and its outcome
    director,     \* SpecDirector: the SlideDirector, its last call and what the call returned
    heap,         \* SpecClone: the objects two documents' fields refer to
    engine,       \* SpecEngine: the SlideEngine.generateSlide request in flight
    resolved      \* SpecTemplate: the last template resolution and its result

docVars == <<doc, docCleared, docOp>>
builderVars == <<builder, lastOp, lastArg, raised>>
registryVars == <<registry, metadata, regCall>>
factoryVars == <<tenants, made>>
engineVars == <<engine, resolved>>
directorVars == <<director, heap, engineVars>>
serviceVars == <<ai, registryVars, factoryVars, directorVars>>

\* ---------------------------------------------------------------- bounds
MaxIds == 4        \* fresh ids handed out in one run
MaxMsgs == 2       \* length of an error / warning list built by hand on a Slide

\* ---------------------------------------------------------------- values
Null == "null"

Titles == {"", " ", "Title"}
SlideTypes == {Null, "text", "chart", "dialogue", "test"}

\* A slide's content object.  keys is Object.keys(content); the other fields
\* carry the values the builders store under those keys.
EmptyContent ==
    [keys |-> {}, text |-> "", speakers |-> <<>>, messages |-> <<>>,
     duration |-> 0, messageCount |-> 0, watermark |-> ""]

\* the object spread {...a, ...b}: the keys of both, b's value where both have one
Merge(a, b) ==
    [k \in DOMAIN a \cup DOMAIN b |-> IF k \in DOMAIN b THEN b[k] ELSE a[k]]

TextContent(t) ==
    [EmptyContent EXCEPT !.keys = {"text"}, !.text = t]

\* ---------------------------------------------------------------- Slide
\* new Slide(): validation starts as {isValid: false, errors: [], warnings: []}
EmptyValidation == [isValid |-> FALSE, errors |-> <<>>, warnings |-> <<>>]

\* the layout, style, metadata, assets and animations of a new Slide; the
\* empty objects of style are written "{}", the timestamps of metadata are
\* left out
DefaultLayout ==
    [type |-> "default", columns |-> 1, alignment |-> "center", spacing |-> "normal"]

DefaultStyle ==
    [theme |-> "default", colors |-> "{}", typography |-> "{}", spacing |-> "{}"]

DefaultMetadata == [version |-> "1.0.0", author |-> Null, tenantId |-> Null]

DefaultAssets == [images |-> <<>>, icons |-> <<>>, fonts |-> <<>>]

DefaultAnimations == [entrance |-> Null, emphasis |-> Null, exit |-> Null]

NewSlide(id) ==
    [id |-> id, type |-> Null, title |-> "", subtitle |-> "",
     content |-> EmptyContent, layout |-> DefaultLayout, style |-> DefaultStyle,
     metadata |-> DefaultMetadata, assets |-> DefaultAssets,
     animations |-> DefaultAnimations, validation |-> EmptyValidation]

\* Slide.addValidationError without the isValid = false assignment
addValidationError_KeepsFlag(s, msg) ==
    [s EXCEPT !.validation.errors = Append(@, msg)]

\* Slide.addValidationError(error)
addValidationError(s, msg) ==
    [s EXCEPT !.validation.errors = Append(@, msg),
              !.validation.isValid = FALSE]

\* Slide.addValidationWarning(warning)
addValidationWarning(s, msg) ==
    [s EXCEPT !.validation.warnings = Append(@, msg)]

\* Slide.clearValidation() that resets the flag and keeps the lists
clearValidation_KeepsLists(s) ==
    [s EXCEPT !.validation.isValid = TRUE]

\* Slide.clearValidation()
clearValidation(s) ==
    [s EXCEPT !.validation = [isValid |-> TRUE, errors |-> <<>>, warnings |-> <<>>]]

\* Slide.clone(): new Slide(), copied fields, then clearValidation()
clone(s, id) ==
    clearValidation([NewSlide(id) EXCEPT
                        !.type = s.type, !.title = s.title,
                        !.subtitle = s.subtitle, !.content = s.content,
                        !.layout = s.layout, !.style = s.style,
                        !.assets = s.assets, !.animations = s.animations,
                        !.metadata = Merge(s.metadata, [version |-> "1.0.0"])])

\* Slide.toJSON(): the data record; hasValidation says whether the record
\* carries a validation key (toJSON always writes it, a caller may drop it)
toJSON(s) ==
    [id |-> s.id, type |-> s.type, title |-> s.title, subtitle |-> s.subtitle,
     content |-> s.content, layout |-> s.layout, style |-> s.style,
     metadata |-> s.metadata, assets |-> s.assets, animations |-> s.animations,
     hasValidation |-> TRUE, validation |-> s.validation]

\* Slide.fromJSON(data): new Slide(), then field by field with defaults;
\* validation = {...slide.validation, ...data.validation}
fromJSON(data, id) ==
    [NewSlide(id) EXCEPT
        !.id = data.id,
        !.type = data.type,
        !.title = data.title,
        !.subtitle = data.subtitle,
        !.content = data.content,
        !.layout = Merge(@, data.layout),
        !.style = Merge(@, data.style),
        !.metadata = Merge(@, data.metadata),
        !.assets = Merge(@, data.assets),
        !.animations = Merge(@, data.animations),
        !.validation = IF data.hasValidation THEN Merge(@, data.validation) ELSE @]

\* ------------------------------------------------- SpecDocument actions
ErrorTexts == {"E1", "E2"}
WarningTexts == {"W1"}

DocNew ==
    /\ nextId < MaxIds
    /\ doc' = NewSlide(nextId)
    /\ nextId' = nextId + 1
    /\ docCleared' = FALSE
    /\ docOp' = "new"
    /\ UNCHANGED <<builderVars, serviceVars>>

\* direct field assignment, as the tests do (slide.title = ..., slide.type = ...)
DocAssign ==
    \E t \in Titles, ty \in {Null, "text"}, c \in {EmptyContent, TextContent("x")} :
        /\ doc' = [doc EXCEPT !.title = t, !.type = ty, !.content = c]
        /\ doc' # doc
        /\ docOp' = "assign"
        /\ UNCHANGED <<docCleared, nextId, builderVars, serviceVars>>

DocAddValidationError ==
    \E m \in ErrorTexts :
        /\ Len(doc.validation.errors) < MaxMsgs
        /\ doc' = addValidationError(doc, m)
        /\ docOp' = "addValidationError"
        /\ UNCHANGED <<docCleared, nextId, builderVars, serviceVars>>

DocAddValidationWarning ==
    \E m \in WarningTexts :
        /\ Len(doc.validation.warnings) < MaxMsgs
        /\ doc' = addValidationWarning(doc, m)
        /\ docOp' = "addValidationWarning"
        /\ UNCHANGED <<docCleared, nextId, builderVars, serviceVars>>

DocClearValidation ==
    /\ doc' = clearValidation(doc)
    /\ docCleared' = TRUE
    /\ docOp' = "clearValidation"
    /\ UNCHANGED <<nextId, builderVars, serviceVars>>

DocClone ==
    /\ nextId < MaxIds
    /\ doc' = clone(doc, nextId)
    /\ nextId' = nextId + 1
    /\ docCleared' = TRUE
    /\ docOp' = "clone"
    /\ UNCHANGED <<builderVars, serviceVars>>

\* Slide.fromJSON(data) on the record toJSON() gave for doc, with its
\* validation key (keep) or with that key removed from the input
DocFromJSON ==
    \E keep \in BOOLEAN :
        /\ nextId < MaxIds
        /\ doc' = fromJSON([toJSON(doc) EXCEPT !.hasValidation = keep], nextId)
        /\ nextId' = nextId + 1
        /\ docCleared' = (keep /\ docCleared)
        /\ docOp' = IF keep THEN "fromJSON" ELSE "fromJSONNoRecord"
        /\ UNCHANGED <<builderVars, serviceVars>>

DocInit ==
    /\ doc = NewSlide(0)
    /\ docCleared = FALSE
    /\ docOp = "new"
    /\ nextId = 1

DocNext ==
    \/ DocNew
    \/ DocAssign
    \/ DocAddValidationError
    \/ DocAddValidationWarning
    \/ DocClearValidation
    \/ DocClone
    \/ DocFromJSON

vars == <<doc, docCleared, docOp, nextId, builderVars, serviceVars>>

\* ------------------------------------------------------------ Speaker
KobeName == "KOBE BRYANT"
KanyeName == "KANYE WEST"

\* Speaker.createKobeBryant(): new Speaker() with a fresh id
createKobeBryant(id) == [id |-> id, name |-> KobeName, role |-> "expert"]

\* Speaker.createKanyeWest()
createKanyeWest(id) == [id |-> id, name |-> KanyeName, role |-> "novice"]

\* Speaker.validate(): the error texts, in order
Speaker_validate(sp) ==
    (IF sp.name = "" THEN <<"Speaker name is required">> ELSE <<>>)
    \o (IF sp.role \notin {"expert", "novice"}
        THEN <<"Speaker role must be \"expert\" or \"novice\"">> ELSE <<>>)

\* ------------------------------------------------------------ Message
LongText == "LONG"
Texts == {"", "Hi", LongText}

\* text.length of the texts used
TextLength(t) == CASE t = "" -> 0 [] t = "Hi" -> 2 [] t = LongText -> 281

\* text.trim() === ''
IsBlank(t) == t \in {"", " "}

MaxMessageChars == 280

\* new Message() with the fields the callers assign; code is the attached
\* CodeBlock's code ("none": no code block)
NewMessage(speakerId, text, order, timestamp, code) ==
    [speakerId |-> speakerId, text |-> text, order |-> order,
     timestamp |-> timestamp, code |-> code]

\* CodeBlock.validate(): the error texts
CodeBlock_validate(code) ==
    IF IsBlank(code) THEN <<"Code content is required">> ELSE <<>>

\* Message.validate(): errors, then warnings
Message_validate(m) ==
    [errors |->
        (IF IsBlank(m.text) THEN <<"Message text is required">> ELSE <<>>)
        \o (IF m.speakerId = 0 THEN <<"Speaker ID is required">> ELSE <<>>)
        \o (IF m.order < 0 THEN <<"Message order must be >= 0">> ELSE <<>>)
        \o (IF m.timestamp < 0 THEN <<"Message timestamp must be >= 0">> ELSE <<>>)
        \o (IF m.code # "none"
            THEN [i \in 1..Len(CodeBlock_validate(m.code)) |->
                     "Code block: " \o CodeBlock_validate(m.code)[i]]
            ELSE <<>>),
     warnings |->
        IF TextLength(m.text) > MaxMessageChars
        THEN <<"Message is longer than 280 characters">> ELSE <<>>]

\* ---------------------------------------------------- DialogueContent
\* new DialogueContent()
NewDialogueContent ==
    [title |-> Null, speakers |-> <<>>, messages |-> <<>>, duration |-> 0]

\* DialogueContent.addSpeaker(speaker)
DC_addSpeaker(d, sp) == [d EXCEPT !.speakers = Append(@, sp)]

\* DialogueContent.getSpeakerByName(name): the first speaker of that name,
\* as a one-element sequence, or <<>> for null
DC_getSpeakerByName(d, name) ==
    LET hits == {i \in 1..Len(d.speakers) : d.speakers[i].name = name}
    IN IF hits = {} THEN <<>>
       ELSE <<d.speakers[CHOOSE i \in hits : \A j \in hits : i <= j]>>

\* the comparator of sortMessages: a sorts before or with b
MessageLeq(a, b) ==
    IF a.order # b.order THEN a.order < b.order ELSE a.timestamp <= b.timestamp

\* stable insertion of m into a sorted list: after every element that does
\* not sort after it
InsertMessage(msgs, m) ==
    LET after == {i \in 1..Len(msgs) : ~MessageLeq(msgs[i], m)}
        k == IF after = {} THEN Len(msgs) + 1
             ELSE CHOOSE i \in after : \A j \in after : i <= j
    IN SubSeq(msgs, 1, k - 1) \o <<m>> \o SubSeq(msgs, k, Len(msgs))

\* DialogueContent.sortMessages(): Array.prototype.sort is stable
RECURSIVE DC_sortMessages(_)
DC_sortMessages(msgs) ==
    IF msgs = <<>> THEN <<>>
    ELSE InsertMessage(DC_sortMessages(SubSeq(msgs, 1, Len(msgs) - 1)),
                       msgs[Len(msgs)])

ReadingTimePerChar == 50

\* DialogueContent.calculateDuration(): from the last message only
DC_calculateDuration(d) ==
    IF d.messages = <<>> THEN [d EXCEPT !.duration = 0]
    ELSE LET last == d.messages[Len(d.messages)]
         IN [d EXCEPT !.duration =
                last.timestamp + TextLength(last.text) * ReadingTimePerChar]

\* DialogueContent.addMessage(message): push, sortMessages, calculateDuration
DC_addMessage(d, m) ==
    DC_calculateDuration([d EXCEPT !.messages = DC_sortMessages(Append(@, m))])

\* DialogueContent.clearSpeakers()
DC_clearSpeakers(d) == [d EXCEPT !.speakers = <<>>]

\* DialogueContent.clearMessages()
DC_clearMessages(d) == [d EXCEPT !.messages = <<>>, !.duration = 0]

\* DialogueContent.toJSON()
DC_toJSON(d) == d

\* DialogueContent.fromJSON(data): the lists are rebuilt and the messages
\* sorted; duration is taken from the data
DC_fromJSON(data) ==
    [title |-> data.title, speakers |-> data.speakers,
     messages |-> DC_sortMessages(data.messages), duration |-> data.duration]

\* DialogueContent.createKobeKanyeTemplate(title): two new speakers
createKobeKanyeTemplate(title, id1, id2) ==
    DC_addSpeaker(DC_addSpeaker([NewDialogueContent EXCEPT !.title = title],
                                createKobeBryant(id1)),
                  createKanyeWest(id2))

\* a validation message: text, the 1-based index it is about (0: none) and
\* the speaker id it quotes (0: none)
Err(msg, idx, ref) == [msg |-> msg, idx |-> idx, ref |-> ref]

\* concatenation of f(1), ..., f(n)
RECURSIVE Flatten(_, _)
Flatten(f, n) == IF n = 0 THEN <<>> ELSE Flatten(f, n - 1) \o f[n]

MaxSpeakersAdvised == 10
MaxMessagesAdvised == 50
MaxDurationAdvised == 90000
MinDurationAdvised == 5000

\* the message loop of DialogueContent.validate(): errors of message i
DC_messageErrors(d, i) ==
    LET m == d.messages[i]
        own == Message_validate(m).errors
    IN [j \in 1..Len(own) |-> Err("Message: " \o own[j], i, 0)]
       \o (IF \E k \in 1..Len(d.speakers) : d.speakers[k].id = m.speakerId
           THEN <<>>
           ELSE <<Err("Message: References non-existent speaker ID", i, m.speakerId)>>)

DC_messageWarnings(d, i) ==
    LET own == Message_validate(d.messages[i]).warnings
    IN [j \in 1..Len(own) |-> Err("Message: " \o own[j], i, 0)]

DC_speakerErrors(d, i) ==
    LET own == Speaker_validate(d.speakers[i])
    IN [j \in 1..Len(own) |-> Err("Speaker: " \o own[j], i, 0)]

\* DialogueContent.validate()
DC_validate(d) ==
    LET errors ==
            (IF Len(d.speakers) = 0
             THEN <<Err("Dialogue must have at least one speaker", 0, 0)>> ELSE <<>>)
            \o Flatten([i \in 1..Len(d.speakers) |-> DC_speakerErrors(d, i)],
                       Len(d.speakers))
            \o (IF Len(d.messages) = 0
                THEN <<Err("Dialogue must have at least one message", 0, 0)>> ELSE <<>>)
            \o Flatten([i \in 1..Len(d.messages) |-> DC_messageErrors(d, i)],
                       Len(d.messages))
        warnings ==
            (IF Len(d.speakers) > MaxSpeakersAdvised
             THEN <<Err("Dialogue has more than 10 speakers", 0, 0)>> ELSE <<>>)
            \o (IF Len(d.messages) > MaxMessagesAdvised
                THEN <<Err("Dialogue has more than 50 messages", 0, 0)>> ELSE <<>>)
            \o Flatten([i \in 1..Len(d.messages) |-> DC_messageWarnings(d, i)],
                       Len(d.messages))
            \o (IF d.duration > MaxDurationAdvised
                THEN <<Err("Dialogue duration exceeds recommended 90s", 0, 0)>> ELSE <<>>)
            \o (IF d.duration < MinDurationAdvised
                THEN <<Err("Dialogue duration is less than 5s", 0, 0)>> ELSE <<>>)
    IN [isValid |-> errors = <<>>, errors |-> errors, warnings |-> warnings]

\* ------------------------------------------------------- SlideBuilder
\* the builder classes: TextSlideBuilder, ChartSlideBuilder, the tests'
\* TestSlideBuilder and the aggregate-based DialogueSlideBuilder
BuilderKinds == {"text", "chart", "test", "dialogue"}

\* the second DialogueSlideBuilder class of DialogueSlideBuilder.js, which
\* stores a snapshot of a DialogueContent as the slide's content
ReelKind == "reel"
AllBuilderKinds == BuilderKinds \cup {ReelKind}

\* a tenant's own builder, written like the tests' builder, whose setContent
\* stores the content object it is given
PassThroughKind == "passThrough"

\* new <Kind>SlideBuilder(): SlideBuilder's constructor, and for the dialogue
\* builder a new DialogueContent
NewBuilder(kind, id) ==
    [kind |-> kind,
     slide |-> IF kind = ReelKind THEN [NewSlide(id) EXCEPT !.type = "dialogue"]
               ELSE NewSlide(id),
     buildSteps |-> <<>>,
     dialogueContent |-> NewDialogueContent]

\* the outcome of a call: the builder as the call left it, and the error it
\* threw ("none": it returned)
Ok(b) == [b |-> b, error |-> "none"]
Throw(b, e) == [b |-> b, error |-> e]

\* SlideBuilder.reset(): a new Slide and an empty step log; the first
\* DialogueSlideBuilder's override also makes a new DialogueContent
reset(b, id) ==
    [b EXCEPT !.slide = NewSlide(id),
              !.buildSteps = <<>>,
              !.dialogueContent = IF b.kind = "dialogue" THEN NewDialogueContent ELSE @]

\* SlideBuilder.addBuildStep(step, data)
addBuildStep(b, step) == [b EXCEPT !.buildSteps = Append(@, step)]

\* setTitle of the classes; only the test and dialogue builders record a
\* build step, and the second dialogue builder leaves the type alone
setTitle(b, title) ==
    LET b1 == [b EXCEPT !.slide.title = title, !.slide.type = b.kind]
    IN CASE b.kind \in {"text", "chart"} -> b1
         [] b.kind = ReelKind ->
              addBuildStep([b EXCEPT !.slide.title = title], "setTitle")
         [] b.kind \in {"test", PassThroughKind} -> addBuildStep(b1, "setTitle")
         [] b.kind = "dialogue" ->
              addBuildStep([b1 EXCEPT !.dialogueContent.title = title], "setTitle")

\* the content objects the setContent methods store
ChartContent ==
    [EmptyContent EXCEPT !.keys = {"data", "chartType", "axes", "legend"}]

BuilderTextContent(t) ==
    [EmptyContent EXCEPT !.keys = {"paragraphs", "wordCount", "text"}, !.text = t]

\* setContent of TextSlideBuilder, ChartSlideBuilder and TestSlideBuilder
\* (the dialogue builder's takes a DialogueContent: setDialogueContent)
setContent(b, text) ==
    CASE b.kind \in {"text", "chart"} /\ text = Null ->
           \* content.split / content.data of an undefined content
           Throw(b, "TypeError")
      [] b.kind = "text" -> Ok([b EXCEPT !.slide.content = BuilderTextContent(text)])
      [] b.kind = "chart" -> Ok([b EXCEPT !.slide.content = ChartContent])
      [] b.kind \in {"test", PassThroughKind} ->
           Ok(addBuildStep([b EXCEPT !.slide.content = TextContent(text)], "setContent"))
      [] b.kind = "dialogue" ->
           Throw(b, "Content must be an instance of DialogueContent")
      [] b.kind = ReelKind ->
           \* dialogueContent.toJSON is not a function
           Throw(b, "TypeError")

\* DialogueSlideBuilder.setContent(content) with a DialogueContent instance;
\* the second class stores {dialogue: content.toJSON(), type: 'dialogue'}
setDialogueContent(b, content) ==
    IF b.kind = ReelKind
    THEN addBuildStep(
           [b EXCEPT !.slide.content =
               [EmptyContent EXCEPT !.keys = {"dialogue", "type"},
                                    !.speakers = DC_toJSON(content).speakers,
                                    !.messages = DC_toJSON(content).messages,
                                    !.duration = DC_toJSON(content).duration]],
           "setContent")
    ELSE addBuildStep([b EXCEPT !.dialogueContent = content], "setContent")

\* the pass-through builder's setContent with a content object
\* {text, watermark}
setContentObject(b, text, watermark) ==
    addBuildStep(
      [b EXCEPT !.slide.content =
          [TextContent(text) EXCEPT
              !.keys = @ \cup (IF watermark # "" THEN {"watermark"} ELSE {}),
              !.watermark = watermark]],
      "setContent")

\* obj[key] || default, for the truthy values the model passes
OrElse(obj, key, default) == IF key \in DOMAIN obj THEN obj[key] ELSE default

\* setSubtitle: TextSlideBuilder and ChartSlideBuilder inherit the base
\* class's throwing version
setSubtitle(b, subtitle) ==
    IF b.kind \in {"text", "chart"} THEN Throw(b, "Must implement setSubtitle")
    ELSE Ok(addBuildStep([b EXCEPT !.slide.subtitle = subtitle], "setSubtitle"))

\* setLayout of the four classes: the layout record is replaced by the text,
\* chart and dialogue builders and merged into by the test builder
setLayout(b, layout) ==
    CASE b.kind = "text" ->
           [b EXCEPT !.slide.layout =
               Merge(layout, [textColumns |-> OrElse(layout, "columns", 1),
                              fontSize |-> OrElse(layout, "fontSize", "medium"),
                              alignment |-> OrElse(layout, "alignment", "left")])]
      [] b.kind = "chart" ->
           [b EXCEPT !.slide.layout =
               Merge(layout, [chartPosition |-> OrElse(layout, "chartPosition", "center"),
                              showDataLabels |-> OrElse(layout, "showDataLabels", FALSE)])]
      [] b.kind \in {"test", ReelKind, PassThroughKind} ->
           addBuildStep([b EXCEPT !.slide.layout = Merge(@, layout)], "setLayout")
      [] b.kind = "dialogue" ->
           addBuildStep(
             [b EXCEPT !.slide.layout =
                 [type |-> OrElse(layout, "type", "dialogue"),
                  columns |-> 1,
                  alignment |-> OrElse(layout, "alignment", "center"),
                  spacing |-> OrElse(layout, "spacing", "normal"),
                  bubbleStyle |-> OrElse(layout, "bubbleStyle", "rounded"),
                  avatarPosition |-> OrElse(layout, "avatarPosition", "side"),
                  showTimestamps |-> OrElse(layout, "showTimestamps", FALSE)]],
             "setLayout")

\* setStyle of the four classes
setStyle(b, style) ==
    CASE b.kind = "text" ->
           [b EXCEPT !.slide.style =
               Merge(style, [fontFamily |-> OrElse(style, "fontFamily", "Arial, sans-serif"),
                             lineHeight |-> OrElse(style, "lineHeight", "1.6")])]
      [] b.kind = "chart" ->
           [b EXCEPT !.slide.style =
               Merge(style, [colorScheme |-> OrElse(style, "colorScheme", "default"),
                             borderWidth |-> OrElse(style, "borderWidth", 1)])]
      [] b.kind \in {"test", ReelKind, PassThroughKind} ->
           addBuildStep([b EXCEPT !.slide.style = Merge(@, style)], "setStyle")
      [] b.kind = "dialogue" ->
           addBuildStep(
             [b EXCEPT !.slide.style =
                 [theme |-> OrElse(style, "theme", "instagram"),
                  colors |-> OrElse(style, "colors", "{}"),
                  typography |-> "{fontFamily, fontSize, lineHeight}",
                  spacing |-> OrElse(style, "spacing", "{}"),
                  backgroundType |-> OrElse(style, "backgroundType", "video"),
                  backgroundColor |-> OrElse(style, "backgroundColor", "#000000")]],
             "setStyle")

\* SlideBuilder.setTenantId(tenantId)
setTenantId(b, tenantId) ==
    addBuildStep([b EXCEPT !.slide.metadata.tenantId = tenantId], "setTenantId")

\* SlideBuilder.setAnimations(animations)
setAnimations(b, animations) ==
    addBuildStep([b EXCEPT !.slide.animations = Merge(@, animations)], "setAnimations")

\* SlideBuilder.addAsset(type, asset)
addAsset(b, type, asset) ==
    addBuildStep([b EXCEPT !.slide.assets =
                     Merge(@, [t \in {type} |-> Append(OrElse(@, type, <<>>), asset)])],
                 "addAsset")

\* DialogueSlideBuilder.addSpeaker(speaker)
addSpeaker(b, sp) ==
    addBuildStep([b EXCEPT !.dialogueContent = DC_addSpeaker(@, sp)], "addSpeaker")

\* the options of addMessage: order and timestamp, each given or not
NoOptions == [hasOrder |-> FALSE, order |-> 0, hasTimestamp |-> FALSE, timestamp |-> 0]

\* options.order ?? messages.length, options.timestamp ?? order * 2000
OrderOf(b, options) ==
    IF options.hasOrder THEN options.order ELSE Len(b.dialogueContent.messages)

DefaultSpacing == 2000

TimestampOf(b, options) ==
    IF options.hasTimestamp THEN options.timestamp
    ELSE OrderOf(b, options) * DefaultSpacing

\* addMessage that stores the turn before it looks the speaker up
addMessage_CheckAfter(b, speakerName, text, options) ==
    LET found == DC_getSpeakerByName(b.dialogueContent, speakerName)
        m == NewMessage(IF found = <<>> THEN 0 ELSE found[1].id, text,
                        OrderOf(b, options), TimestampOf(b, options), "none")
        b1 == [b EXCEPT !.dialogueContent = DC_addMessage(@, m)]
    IN IF found = <<>> THEN Throw(b1, "Speaker not found")
       ELSE Ok(addBuildStep(b1, "addMessage"))

\* DialogueSlideBuilder.addMessage(speakerName, text, options)
addMessage(b, speakerName, text, options) ==
    LET found == DC_getSpeakerByName(b.dialogueContent, speakerName)
    IN IF found = <<>> THEN Throw(b, "Speaker not found")
       ELSE LET m == NewMessage(found[1].id, text, OrderOf(b, options),
                                TimestampOf(b, options), "none")
            IN Ok(addBuildStep([b EXCEPT !.dialogueContent = DC_addMessage(@, m)],
                               "addMessage"))

\* DialogueSlideBuilder.addMessageWithCode(speakerName, text, code, options)
addMessageWithCode(b, speakerName, text, code, options) ==
    LET found == DC_getSpeakerByName(b.dialogueContent, speakerName)
    IN IF found = <<>> THEN Throw(b, "Speaker not found")
       ELSE LET m == NewMessage(found[1].id, text, OrderOf(b, options),
                                TimestampOf(b, options), code)
            IN Ok(addBuildStep([b EXCEPT !.dialogueContent = DC_addMessage(@, m)],
                               "addMessageWithCode"))

\* DialogueSlideBuilder.finalize(): calculateDuration, then the snapshot of
\* the aggregate is stored as the slide's content
finalize(b) ==
    LET d == DC_calculateDuration(b.dialogueContent)
    IN addBuildStep(
         [b EXCEPT !.dialogueContent = d,
                   !.slide.content =
                       [keys |-> {"dialogueId", "dialogue", "speakers", "messages",
                                  "duration", "messageCount"},
                        text |-> "",
                        speakers |-> d.speakers,
                        messages |-> d.messages,
                        duration |-> d.duration,
                        messageCount |-> Len(d.messages),
                        watermark |-> ""]],
         "finalize")

\* slide.addValidationError / addValidationWarning for each element of a list
RECURSIVE AddErrors(_, _)
AddErrors(s, errs) ==
    IF errs = <<>> THEN s
    ELSE AddErrors(addValidationError(s, errs[1]), SubSeq(errs, 2, Len(errs)))

RECURSIVE AddWarnings(_, _)
AddWarnings(s, ws) ==
    IF ws = <<>> THEN s
    ELSE AddWarnings(addValidationWarning(s, ws[1]), SubSeq(ws, 2, Len(ws)))

\* the "Dialogue: " prefix customValidation puts before each message
Prefixed(errs) == [i \in 1..Len(errs) |-> [errs[i] EXCEPT !.msg = "Dialogue: " \o @]]

\* customValidation() of the second DialogueSlideBuilder, on the snapshot in
\* slide.content.dialogue
ReelValidation(s) ==
    IF "dialogue" \notin s.content.keys
    THEN addValidationError(s, Err("Dialogue content is required", 0, 0))
    ELSE LET c == s.content
             errors ==
               (IF Len(c.speakers) < 2
                THEN <<Err("Dialogue must have at least 2 speakers", 0, 0)>> ELSE <<>>)
               \o (IF Len(c.messages) < 2
                   THEN <<Err("Dialogue must have at least 2 messages", 0, 0)>> ELSE <<>>)
             warnings ==
               (IF c.duration > MaxDurationAdvised
                THEN <<Err("Dialogue duration exceeds 90s Instagram limit", 0, 0)>>
                ELSE <<>>)
               \o (IF c.duration < MinDurationAdvised
                   THEN <<Err("Dialogue duration is very short", 0, 0)>> ELSE <<>>)
         IN AddWarnings(AddErrors(s, errors), warnings)

\* customValidation(): the base class's does nothing; the dialogue builder's
\* copies the aggregate's errors and warnings and checks for the snapshot
customValidation(b) ==
    IF b.kind = ReelKind THEN [b EXCEPT !.slide = ReelValidation(@)]
    ELSE IF b.kind # "dialogue" THEN b
    ELSE LET v == DC_validate(b.dialogueContent)
             s1 == IF ~v.isValid THEN AddErrors(b.slide, Prefixed(v.errors))
                   ELSE b.slide
             s2 == AddWarnings(s1, Prefixed(v.warnings))
             s3 == IF "dialogue" \notin s2.content.keys
                   THEN addValidationError(s2, Err("Dialogue content not finalized", 0, 0))
                   ELSE s2
         IN [b EXCEPT !.slide = s3]

\* SlideBuilder.validate()
validate(b) ==
    LET s0 == clearValidation(b.slide)
        s1 == IF IsBlank(s0.title)
              THEN addValidationError(s0, Err("Title is required", 0, 0)) ELSE s0
        s2 == IF s1.type = Null
              THEN addValidationError(s1, Err("Slide type must be specified", 0, 0))
              ELSE s1
        s3 == IF s2.content.keys = {}
              THEN addValidationWarning(s2, Err("Slide has no content", 0, 0)) ELSE s2
    IN customValidation([b EXCEPT !.slide = s3])

\* getResult that hands the slide out as it is
getResult_NoValidate(b) ==
    IF b.kind = "dialogue" /\ "dialogue" \notin b.slide.content.keys
    THEN finalize(b) ELSE b

\* SlideBuilder.getResult(), and DialogueSlideBuilder.getResult() which
\* finalizes first when the slide holds no dialogue snapshot
getResult(b) ==
    IF b.kind = "dialogue" /\ "dialogue" \notin b.slide.content.keys
    THEN validate(finalize(b))
    ELSE validate(b)

\* --------------------------------------------------- builder actions
MaxSteps == 4       \* length of the build-step log
MaxRuleErrors == 1  \* errors attached to a returned slide from outside the builder
MaxMessages == 2    \* messages of a dialogue aggregate

\* a call's effect on the model's variables
Call(op, arg, r) ==
    /\ builder' = r.b
    /\ lastOp' = op
    /\ lastArg' = arg
    /\ raised' = r.error

\* the call appends at most n build steps and the log has room for them
Room(n) == Len(builder.buildSteps) + n <= MaxSteps

IsDialogue == builder.kind = "dialogue"

MessageOptions == {NoOptions, [NoOptions EXCEPT !.hasOrder = TRUE]}
Codes == {"", "x := 1"}
SpeakerNames == {KobeName, KanyeName}

Reset ==
    /\ nextId < MaxIds
    /\ Call("reset", "", Ok(reset(builder, nextId)))
    /\ nextId' = nextId + 1
    /\ UNCHANGED <<docVars, serviceVars>>

SetTitle ==
    \E t \in {"", "Title"} :
        /\ Room(1)
        /\ Call("setTitle", "", Ok(setTitle(builder, t)))
        /\ UNCHANGED <<nextId, docVars, serviceVars>>

SetContent ==
    /\ Room(1)
    /\ Call("setContent", "", setContent(builder, "Hi"))
    /\ UNCHANGED <<nextId, docVars, serviceVars>>

\* setContent(DialogueContent.createKobeKanyeTemplate(title))
SetContentTemplate ==
    /\ builder.kind \in {"dialogue", ReelKind}
    /\ Room(1)
    /\ nextId + 1 < MaxIds
    /\ Call("setContent", "",
            Ok(setDialogueContent(builder,
                                  createKobeKanyeTemplate("Title", nextId, nextId + 1))))
    /\ nextId' = nextId + 2
    /\ UNCHANGED <<docVars, serviceVars>>

\* addSpeaker(Speaker.createKobeBryant()) / addSpeaker(Speaker.createKanyeWest())
AddSpeaker ==
    \E sp \in {createKobeBryant(nextId), createKanyeWest(nextId)} :
        /\ IsDialogue
        /\ Room(1)
        /\ nextId < MaxIds
        /\ Call("addSpeaker", sp.name, Ok(addSpeaker(builder, sp)))
        /\ nextId' = nextId + 1
        /\ UNCHANGED <<docVars, serviceVars>>

\* addMessage(n, t, o) for the given names, texts and options
AddMessage(names, texts, options) ==
    \E n \in names, t \in texts, o \in options :
        /\ IsDialogue
        /\ Room(1)
        /\ Len(builder.dialogueContent.messages) < MaxMessages
        /\ Call("addMessage", n, addMessage(builder, n, t, o))
        /\ UNCHANGED <<nextId, docVars, serviceVars>>

AddMessageWithCode(names, codes) ==
    \E n \in names, c \in codes :
        /\ IsDialogue
        /\ Room(1)
        /\ Len(builder.dialogueContent.messages) < MaxMessages
        /\ Call("addMessageWithCode", n,
                addMessageWithCode(builder, n, "Hi", c, NoOptions))
        /\ UNCHANGED <<nextId, docVars, serviceVars>>

Finalize ==
    /\ IsDialogue
    /\ Room(1)
    /\ Call("finalize", "", Ok(finalize(builder)))
    /\ UNCHANGED <<nextId, docVars, serviceVars>>

Validate ==
    /\ Call("validate", "", Ok(validate(builder)))
    /\ UNCHANGED <<nextId, docVars, serviceVars>>

GetResult ==
    /\ Room(1)
    /\ Call("getResult", "", Ok(getResult(builder)))
    /\ UNCHANGED <<nextId, docVars, serviceVars>>

TenantRuleMessage == Err("Tenant validation rule failed", 0, 0)

\* SlideDirector.validateWithTenantRules on the slide getResult() returned:
\* slide.addValidationError(rule.message)
TenantRuleError ==
    /\ lastOp \in {"getResult", "tenantRuleError"}
    /\ Cardinality({i \in 1..Len(builder.slide.validation.errors) :
                      builder.slide.validation.errors[i] = TenantRuleMessage})
         < MaxRuleErrors
    /\ Call("tenantRuleError", "",
            Ok([builder EXCEPT !.slide = addValidationError(@, TenantRuleMessage)]))
    /\ UNCHANGED <<nextId, docVars, serviceVars>>

\* ----------------------------------------------------------- AIService
\* one entry of dialogueData.messages, the parsed reply of the model
MessageData ==
    [speaker : {KobeName, KanyeName, "NARRATOR"}, text : {"Hi", LongText},
     isInterruption : BOOLEAN, code : {"none", "x := 1"}]

ReadingSpeed == 50
PauseTime == 500
InterruptionPauseTime == 200

\* the forEach of buildDialogueContent over messages[from..]: each message
\* takes the id of the kobe or kanye PARAMETER and the running timestamp
RECURSIVE AppendMessages(_, _, _, _, _, _)
AppendMessages(d, messages, from, currentTimestamp, kobe, kanye) ==
    IF from > Len(messages) THEN d
    ELSE LET msgData == messages[from]
             speaker == IF msgData.speaker = kobe.name THEN kobe ELSE kanye
             message == NewMessage(speaker.id, msgData.text, from - 1,
                                   currentTimestamp, msgData.code)
             pause == IF msgData.isInterruption THEN InterruptionPauseTime
                      ELSE PauseTime
         IN AppendMessages(DC_addMessage(d, message), messages, from + 1,
                           currentTimestamp
                               + TextLength(msgData.text) * ReadingSpeed + pause,
                           kobe, kanye)

\* AIService.buildDialogueContent(topic, dialogueData, kobe, kanye); id1 and
\* id2 are the ids the two Speaker factory calls inside
\* createKobeKanyeTemplate draw
buildDialogueContent(title, messages, kobe, kanye, id1, id2) ==
    AppendMessages(createKobeKanyeTemplate(title, id1, id2), messages, 1, 0,
                   kobe, kanye)

NoAiCall ==
    [op |-> "new", kobe |-> createKobeBryant(0), kanye |-> createKanyeWest(0),
     dialogue |-> NewDialogueContent, raised |-> "none"]

AiIdle == ai = NoAiCall

\* ------------------------------------------------------ BuilderRegistry
\* the builder classes handed to the registry: the repository's, the test's
\* InvalidBuilder, and a class that is no subclass of SlideBuilder and defines
\* all operations but setSubtitle
BuilderClasses ==
    {"SlideBuilder", "TextSlideBuilder", "TestSlideBuilder", "InvalidBuilder",
     "NoSubtitleBuilder"}

\* values that are no constructor function
NotConstructors == {Null}

BuilderOperations ==
    {"setTitle", "setSubtitle", "setContent", "setLayout", "setStyle", "getResult"}

\* the members m of an instance with typeof instance[m] === 'function'
Methods(class) ==
    CASE class \in {"SlideBuilder", "TextSlideBuilder", "TestSlideBuilder"}
             -> BuilderOperations
      [] class = "NoSubtitleBuilder" -> BuilderOperations \ {"setSubtitle"}
      [] OTHER -> {}

\* the members that do not throw 'Must implement ...' when called
Implemented(class) ==
    CASE class = "SlideBuilder" -> {"getResult"}
      [] class = "TextSlideBuilder" -> BuilderOperations \ {"setSubtitle"}
      [] OTHER -> Methods(class)

requiredMethods == <<"setTitle", "setContent", "setLayout", "setStyle", "getResult">>

\* BuilderRegistry.validateBuilder: the error it throws, "none" when it
\* returns.  Its second loop calls the setters on the probe instance and
\* swallows whatever they throw.
validateBuilder(builderClass) ==
    LET missing == {i \in 1..Len(requiredMethods) :
                        requiredMethods[i] \notin Methods(builderClass)}
    IN IF missing = {} THEN "none"
       ELSE LET first == CHOOSE i \in missing : \A j \in missing : i <= j
            IN "Builder must implement " \o requiredMethods[first] \o " method"

RegistryKeys == {"text", "dialogue"}

\* the metadata argument: omitted, an object with a category, null
MetadataArgs == {"undefined", "bulk", Null}

EmptyRegistry ==
    [registry |-> [k \in RegistryKeys |-> Null],
     metadata |-> [k \in RegistryKeys |-> Null]]

\* BuilderRegistry.registerBuilder(slideType, builderClass, metadata) on the
\* maps r: the maps after the call and the error thrown.  The default {}
\* stands in for an omitted metadata only; with null, metadata.name throws
\* after registry.set has run.
registerBuilder(r, slideType, builderClass, md) ==
    IF slideType = "" THEN [r |-> r, error |-> "Slide type must be a non-empty string"]
    ELSE IF builderClass \in NotConstructors
    THEN [r |-> r, error |-> "Builder must be a constructor function"]
    ELSE IF validateBuilder(builderClass) # "none"
    THEN [r |-> r, error |-> validateBuilder(builderClass)]
    ELSE LET r1 == [r EXCEPT !.registry[slideType] = builderClass]
         IN IF md = Null THEN [r |-> r1, error |-> "TypeError"]
            ELSE [r |-> [r1 EXCEPT !.metadata[slideType] =
                                      [name |-> slideType,
                                       category |-> IF md = "undefined"
                                                    THEN "standard" ELSE md]],
                  error |-> "none"]

\* BuilderRegistry.getBuilder(slideType): the class, or the error
getBuilder(r, slideType) ==
    IF slideType \notin RegistryKeys \/ r.registry[slideType] = Null
    THEN [class |-> Null, error |-> "No builder registered for slide type"]
    ELSE [class |-> r.registry[slideType], error |-> "none"]

hasBuilder(r, slideType) ==
    slideType \in RegistryKeys /\ r.registry[slideType] # Null

unregisterBuilder(r, slideType) ==
    IF slideType \in RegistryKeys
    THEN [r EXCEPT !.registry[slideType] = Null, !.metadata[slideType] = Null]
    ELSE r

\* an entry of the list given to bulkRegister: an object, or null
NullEntry ==
    [isNull |-> TRUE, slideType |-> "", builderClass |-> Null, metadata |-> Null]

BulkEntries ==
    [isNull : {FALSE},
     slideType : RegistryKeys,
     builderClass : {"TestSlideBuilder", "InvalidBuilder"},
     metadata : {"bulk", Null}]
    \cup {NullEntry}

\* BuilderRegistry.bulkRegister(builders), from entry `from` on.  The loop
\* header destructures the entry outside the try block: a null entry throws
\* out of bulkRegister with the registrations made so far in place.
RECURSIVE bulkRegister(_, _, _, _)
bulkRegister(r, builders, from, results) ==
    IF from > Len(builders) THEN [r |-> r, results |-> results, error |-> "none"]
    ELSE IF builders[from].isNull
    THEN [r |-> r, results |-> <<>>, error |-> "TypeError"]
    ELSE LET e == builders[from]
             out == registerBuilder(r, e.slideType, e.builderClass, e.metadata)
         IN bulkRegister(out.r, builders, from + 1,
                         Append(results, [slideType |-> e.slideType,
                                          success |-> out.error = "none",
                                          error |-> out.error]))

NoRegistryCall ==
    [op |-> "new", slideType |-> "", builderClass |-> Null, builders |-> <<>>,
     results |-> <<>>, raised |-> "none"]

RegistryIdle ==
    /\ registry = EmptyRegistry.registry
    /\ metadata = EmptyRegistry.metadata
    /\ regCall = NoRegistryCall

\* ------------------------------------- TenantRegistry, BuilderFactory
TenantIds == {"acme", "globex"}
FactoryKeys == {"text", "chart", "dialogue", "infographic", "video"}

\* config.customBuilders: slide type -> "absent" (no such property), a
\* builder class, or null (the property is there, its value is falsy)
CustomBuilderMaps == [{"text", "dialogue"} -> {"absent", "CustomBuilder", Null}]

\* the undefined that TenantRegistry.getTenant returns for an id not in the map
NoTenant ==
    [registered |-> FALSE, customBuilders |-> [k \in {"text", "dialogue"} |-> "absent"]]

\* new TenantConfiguration(config)
TenantConfiguration(customBuilders) ==
    [registered |-> TRUE, customBuilders |-> customBuilders]

\* TenantRegistry.getTenant(tenantId)
getTenant(ts, tenantId) == IF tenantId \in TenantIds THEN ts[tenantId] ELSE NoTenant

\* TenantConfiguration.hasCustomBuilder(slideType)
hasCustomBuilder(customBuilders, slideType) ==
    slideType \in DOMAIN customBuilders /\ customBuilders[slideType] # "absent"

\* TenantConfiguration.getCustomBuilder(slideType): the class of the new
\* instance, or null
getCustomBuilder(customBuilders, slideType) == customBuilders[slideType]

\* BuilderFactory.createBuilder(slideType, tenantId): the class of the
\* instance returned (Null: null returned) and the error thrown
createBuilder(ts, slideType, tenantId) ==
    LET tenant == getTenant(ts, tenantId)
    IN IF tenant.registered /\ hasCustomBuilder(tenant.customBuilders, slideType)
       THEN [instance |-> getCustomBuilder(tenant.customBuilders, slideType),
             error |-> "none"]
       ELSE CASE slideType = "text"
                     -> [instance |-> "TextSlideBuilder", error |-> "none"]
              [] slideType = "chart"
                     -> [instance |-> "ChartSlideBuilder", error |-> "none"]
              [] slideType = "infographic"
                     -> [instance |-> Null,
                         error |-> "InfographicSlideBuilder not yet implemented"]
              [] OTHER -> [instance |-> Null, error |-> "Unknown slide type"]

NoFactoryCall ==
    [op |-> "new", slideType |-> "", tenantId |-> "", instance |-> Null,
     raised |-> "none"]

FactoryIdle ==
    /\ tenants = [t \in TenantIds |-> NoTenant]
    /\ made = NoFactoryCall

\* ------------------------------------------------------ SlideDirector
\* an object-valued property that is absent (undefined)
NoRecord == <<>>
Present(obj) == DOMAIN obj # {}
Undefined == "undefined"

\* slideData.content: a string, an object {text, watermark} or nothing
StringContent(t) == [kind |-> "string", text |-> t, watermark |-> ""]
ObjectContent(t, w) == [kind |-> "object", text |-> t, watermark |-> w]
UndefinedContent == [kind |-> "undefined", text |-> Null, watermark |-> ""]

\* the slideData argument; "" stands for an absent string property, assets
\* is the list of (type, asset) pairs in the order of Object.entries
SlideData(title, subtitle, content) ==
    [isNull |-> FALSE, title |-> title, subtitle |-> subtitle, content |-> content,
     layout |-> NoRecord, style |-> NoRecord, animations |-> NoRecord,
     assets |-> <<>>, tenantId |-> ""]

NullSlideData == [SlideData("", "", UndefinedContent) EXCEPT !.isNull = TRUE]

\* a tenant validation rule {validate, message}: the predicate is given by
\* what it does on the finished slide, and throws Error(exception); the
\* outcome "watermark" is the predicate slide => Boolean(slide.content.watermark)
RuleOutcomes == {"true", "false", "throws"}
Rule(message, outcome) ==
    [message |-> message, outcome |-> outcome, hasValidate |-> TRUE,
     exception |-> IF outcome = "throws" THEN "boom" ELSE ""]

\* the tenantContext argument; {} is NoContext
NoContext ==
    [tenantId |-> "", requiresWatermark |-> FALSE, watermark |-> "",
     hasRules |-> FALSE, validationRules |-> <<>>,
     layoutStrategy |-> NoRecord, styleStrategy |-> NoRecord,
     complianceLevel |-> "", branding |-> ""]

\* a result of a director sequence: the builder as the call left it, the
\* error thrown, the returned slides, the entries recorded in the history,
\* the lines written to the console, and for the tenant rules the indices
\* evaluated and the errors attached for each
DirResult(b, error, returned, entries) ==
    [b |-> b, error |-> error, returned |-> returned, entries |-> entries,
     console |-> <<>>, evaluated |-> <<>>, attached |-> <<>>]

\* f(v), with v evaluated once
Eval(v, f(_)) == CHOOSE out \in {f(x) : x \in {v}} : TRUE

\* the next call of a chain of builder calls: skipped once a call has thrown
Bind(r, f(_)) == Eval(r, LAMBDA x : IF x.error = "none" THEN f(x.b) ELSE x)

\* the builder's setContent on slideData.content
DirSetContent(b, c) ==
    CASE c.kind = "undefined" ->
           IF b.kind = PassThroughKind THEN Throw(b, "TypeError") ELSE setContent(b, Null)
      [] c.kind = "string" ->
           IF b.kind = PassThroughKind THEN Throw(b, "TypeError") ELSE setContent(b, c.text)
      [] c.kind = "object" ->
           IF b.kind = "text" THEN Throw(b, "TypeError")   \* content.split is not a function
           ELSE IF b.kind = PassThroughKind
           THEN Ok(setContentObject(b, c.text, c.watermark))
           ELSE setContent(b, c.text)

RECURSIVE AddAssets(_, _)
AddAssets(b, pairs) ==
    IF pairs = <<>> THEN b
    ELSE AddAssets(addAsset(b, pairs[1][1], pairs[1][2]), Tail(pairs))

\* SlideDirector.recordConstruction(method, data, result): the entry pushed
HistoryEntry(method, slide) ==
    [method |-> method, slideId |-> slide.id,
     success |-> slide.validation.isValid # FALSE]

\* applyTenantEnhancements left out before the rules run
applyTenantEnhancements_NotYet(slide, ctx) == slide

\* SlideDirector.applyTenantEnhancements(slide, tenantContext)
applyTenantEnhancements(slide, ctx) ==
    LET s1 == IF ctx.requiresWatermark /\ ctx.watermark # ""
              THEN IF slide.content.watermark = ""
                   THEN [slide EXCEPT !.content.watermark = ctx.watermark,
                                      !.content.keys = @ \cup {"watermark"}]
                   ELSE slide
              ELSE slide
        s2 == IF ctx.complianceLevel # ""
              THEN [s1 EXCEPT !.metadata =
                                  Merge(@, [complianceLevel |-> ctx.complianceLevel])]
              ELSE s1
    IN IF ctx.branding # ""
       THEN [s2 EXCEPT !.style = Merge(@, [branding |-> ctx.branding])]
       ELSE s2

\* the validation error validateWithTenantRules attaches for a rule that
\* returned false / that threw
RuleFailedError(rule) ==
    Err(IF rule.message # "" THEN rule.message ELSE "Tenant validation rule failed", 0, 0)

RuleThrewError(rule) == Err("Validation rule error: " \o rule.exception, 0, 0)

\* SlideDirector.validateWithTenantRules(slide, validationRules), from rule i
RECURSIVE validateWithTenantRules(_, _, _)
validateWithTenantRules(v, rules, i) ==
    IF i > Len(rules) THEN v
    ELSE LET rule == rules[i]
             errs == CASE ~rule.hasValidate -> <<>>
                       [] rule.outcome = "true" -> <<>>
                       [] rule.outcome = "false" -> <<RuleFailedError(rule)>>
                       [] rule.outcome = "throws" -> <<RuleThrewError(rule)>>
                       [] rule.outcome = "watermark" ->
                            IF v.slide.content.watermark # "" THEN <<>>
                            ELSE <<RuleFailedError(rule)>>
         IN Eval([slide |-> AddErrors(v.slide, errs),
                  evaluated |-> IF rule.hasValidate THEN Append(v.evaluated, i)
                                ELSE v.evaluated,
                  attached |-> Append(v.attached, errs)],
                 LAMBDA next : validateWithTenantRules(next, rules, i + 1))

NoRules(slide) == [slide |-> slide, evaluated |-> <<>>, attached |-> <<>>]

\* SlideDirector.buildBasicSlide(slideData), builder assigned
buildBasicSlide(b, data, id) ==
    LET b0 == reset(b, id)
        r1 == Bind(Ok(setTitle(b0, data.title)), LAMBDA x : DirSetContent(x, data.content))
        r2 == Bind(r1, LAMBDA x : Ok(getResult(x)))
    IN IF data.isNull THEN DirResult(b0, "TypeError", <<>>, <<>>)
       ELSE Eval(r2, LAMBDA r :
              IF r.error # "none" THEN DirResult(r.b, r.error, <<>>, <<>>)
              ELSE DirResult(r.b, "none", <<r.b.slide>>,
                             <<HistoryEntry("buildBasicSlide", r.b.slide)>>))

\* SlideDirector.buildStyledSlide(slideData), builder assigned
buildStyledSlide(b, data, id) ==
    LET b0 == reset(b, id)
        b1 == setTitle(b0, data.title)
        r2 == IF data.subtitle # "" THEN setSubtitle(b1, data.subtitle) ELSE Ok(b1)
        r3 == Bind(r2, LAMBDA x : DirSetContent(x, data.content))
        r4 == Bind(r3, LAMBDA x : Ok(setStyle(setLayout(x, data.layout), data.style)))
        r5 == Bind(r4, LAMBDA x : Ok(getResult(x)))
    IN IF data.isNull THEN DirResult(b0, "TypeError", <<>>, <<>>)
       ELSE Eval(r5, LAMBDA r :
              IF r.error # "none" THEN DirResult(r.b, r.error, <<>>, <<>>)
              ELSE DirResult(r.b, "none", <<r.b.slide>>,
                             <<HistoryEntry("buildStyledSlide", r.b.slide)>>))

\* SlideDirector.buildAdvancedSlide(slideData, tenantContext), builder assigned
buildAdvancedSlide(b, data, ctx, id) ==
    LET b0 == reset(b, id)
        b1 == setTenantId(b0, IF ctx.tenantId # "" THEN ctx.tenantId
                              ELSE IF data.tenantId # "" THEN data.tenantId
                              ELSE Undefined)
        b2 == setTitle(b1, data.title)
        r3 == IF data.subtitle # "" THEN setSubtitle(b2, data.subtitle) ELSE Ok(b2)
        r4 == Bind(r3, LAMBDA x : DirSetContent(x, data.content))
        r5 == Bind(r4, LAMBDA x :
                 Ok(IF Present(ctx.layoutStrategy) THEN setLayout(x, ctx.layoutStrategy)
                    ELSE IF Present(data.layout) THEN setLayout(x, data.layout)
                    ELSE x))
        r6 == Bind(r5, LAMBDA x :
                 Ok(IF Present(ctx.styleStrategy) THEN setStyle(x, ctx.styleStrategy)
                    ELSE IF Present(data.style) THEN setStyle(x, data.style)
                    ELSE x))
        r7 == Bind(r6, LAMBDA x :
                 Ok(IF Present(data.animations) THEN setAnimations(x, data.animations)
                    ELSE x))
        r8 == Bind(r7, LAMBDA x : Ok(AddAssets(x, data.assets)))
        r9 == Bind(r8, LAMBDA x : Ok(getResult(x)))
        Rules(enhanced) ==
            IF ctx.hasRules
            THEN validateWithTenantRules(NoRules(enhanced), ctx.validationRules, 1)
            ELSE NoRules(enhanced)
    IN IF data.isNull
       THEN DirResult(IF ctx.tenantId # "" THEN b1 ELSE b0, "TypeError", <<>>, <<>>)
       ELSE Eval(r9, LAMBDA r :
              IF r.error # "none" THEN DirResult(r.b, r.error, <<>>, <<>>)
              ELSE Eval(Rules(applyTenantEnhancements(r.b.slide, ctx)), LAMBDA v :
                     [DirResult([r.b EXCEPT !.slide = v.slide], "none", <<v.slide>>,
                                <<HistoryEntry("buildAdvancedSlide", v.slide)>>)
                        EXCEPT !.evaluated = v.evaluated, !.attached = v.attached]))

\* SlideDirector.processTemplate(template, data) for the template strings in
\* use: {{name}} is replaced by data.name when that is not empty
NameTemplate == "Welcome {{name}}"
processTemplate(template, data) ==
    IF template = NameTemplate /\ data.name # "" THEN "Welcome " \o data.name
    ELSE template

\* SlideDirector.processContentTemplate(template, data): a string template
\* gives a string, an object template {text: ...} an object
processContentTemplate(template, data) ==
    IF template.kind = "undefined" THEN template
    ELSE [template EXCEPT !.text = processTemplate(@, data)]

\* SlideDirector.buildFromTemplate(template, data, tenantContext)
buildFromTemplate(b, template, data, ctx, id) ==
    IF template.isNull THEN DirResult(b, "TypeError", <<>>, <<>>)
    ELSE Eval(SlideData(processTemplate(template.titleTemplate, data),
                        IF template.subtitleTemplate # ""
                        THEN processTemplate(template.subtitleTemplate, data) ELSE "",
                        processContentTemplate(template.contentTemplate, data)),
              LAMBDA processedData :
                Eval(buildAdvancedSlide(b, processedData, ctx, id),
                     LAMBDA r :
                       IF r.error # "none" THEN r
                       ELSE [r EXCEPT !.entries =
                               Append(@, HistoryEntry("buildFromTemplate",
                                                      r.returned[1]))]))

\* buildMultipleSlides without the try / catch around each input
RECURSIVE buildMultipleSlides_NoCatch(_, _, _, _, _, _)
buildMultipleSlides_NoCatch(acc, has, slidesData, ctx, id, i) ==
    IF i > Len(slidesData) \/ acc.error # "none" THEN acc
    ELSE Eval(IF has THEN buildAdvancedSlide(acc.b, slidesData[i], ctx, id + i - 1)
              ELSE DirResult(acc.b, "No builder assigned to director", <<>>, <<>>),
              LAMBDA r :
                Eval([acc EXCEPT !.b = r.b,
                                 !.error = r.error,
                                 !.returned = IF r.error = "none" THEN @ \o r.returned
                                              ELSE <<>>,
                                 !.entries = @ \o r.entries],
                     LAMBDA next :
                       buildMultipleSlides_NoCatch(next, has, slidesData, ctx, id, i + 1)))

\* SlideDirector.buildMultipleSlides(slidesData, tenantContext): the map
\* callback from index i - 1 on, then filter(Boolean); has: this.builder is set
RECURSIVE buildMultipleSlides(_, _, _, _, _, _)
buildMultipleSlides(acc, has, slidesData, ctx, id, i) ==
    IF i > Len(slidesData) THEN acc
    ELSE Eval(IF has THEN buildAdvancedSlide(acc.b, slidesData[i], ctx, id + i - 1)
              ELSE DirResult(acc.b, "No builder assigned to director", <<>>, <<>>),
              LAMBDA r :
                Eval([acc EXCEPT !.b = r.b,
                                 !.returned = @ \o r.returned,
                                 !.entries = @ \o r.entries,
                                 !.console = IF r.error # "none"
                                             THEN Append(@, [index |-> i - 1,
                                                             error |-> r.error])
                                             ELSE @],
                     LAMBDA next :
                       buildMultipleSlides(next, has, slidesData, ctx, id, i + 1)))

\* the SlideDirector class of factories/VoiceFactory.js: validateSlide(slide, rules)
RECURSIVE validateSlide(_, _, _)
validateSlide(v, rules, i) ==
    IF i > Len(rules) \/ v.error # "none" THEN v
    ELSE LET rule == rules[i]
         IN validateSlide(
              [error |-> CASE ~rule.hasValidate -> "TypeError"
                           [] rule.outcome = "true" -> "none"
                           [] rule.outcome = "false" ->
                                "Validation failed: "
                                  \o (IF rule.message = "" THEN Undefined ELSE rule.message)
                           [] rule.outcome = "throws" -> rule.exception,
               evaluated |-> Append(v.evaluated, i)],
              rules, i + 1)

\* and its buildAdvancedSlide(slideData, tenant): no reset, no history
VF_buildAdvancedSlide(b, data, tenant) ==
    LET b1 == setTitle(b, data.title)
        r2 == DirSetContent(b1, data.content)
        r3 == Bind(r2, LAMBDA x :
                 IF ~Present(data.layout) /\ x.kind \in {"text", "chart"}
                 THEN Throw(x, "TypeError")      \* layout.columns of undefined
                 ELSE Ok(setLayout(x, data.layout)))
        r4 == Bind(r3, LAMBDA x :
                 IF ~Present(tenant.styleStrategy)
                 THEN Throw(x, "TypeError")      \* tenant.styleStrategy.getStyles
                 ELSE Ok(setStyle(x, tenant.styleStrategy)))
        r5 == Bind(r4, LAMBDA x : Ok(getResult(x)))
        Marked(slide) == IF tenant.requiresWatermark
                         THEN Merge(slide, [watermark |-> tenant.watermark])
                         ELSE slide
        v == IF tenant.hasRules
             THEN validateSlide([error |-> "none", evaluated |-> <<>>],
                                tenant.validationRules, 1)
             ELSE [error |-> "none", evaluated |-> <<>>]
    IN IF data.isNull THEN DirResult(b, "TypeError", <<>>, <<>>)
       ELSE Eval(r5, LAMBDA r :
              IF r.error # "none" THEN DirResult(r.b, r.error, <<>>, <<>>)
              ELSE Eval(Marked(r.b.slide), LAMBDA marked :
                     [DirResult([r.b EXCEPT !.slide = marked], v.error,
                                IF v.error = "none" THEN <<marked>> ELSE <<>>, <<>>)
                        EXCEPT !.evaluated = v.evaluated]))

\* ------------------------------------------------ the director's state
PatternsDirector == "patterns/SlideDirector.js"
FactoriesDirector == "factories/VoiceFactory.js"
DirectorClasses == {PatternsDirector, FactoriesDirector}

NewDirector(class, has) ==
    [class |-> class, hasBuilder |-> has, constructionHistory |-> <<>>,
     logged |-> <<>>, invoked |-> <<>>, cleared |-> FALSE,
     op |-> "new", error |-> "none", returned |-> <<>>,
     slidesData |-> <<>>, tenantContext |-> NoContext,
     evaluated |-> <<>>, attached |-> <<>>]

DirectorIdle == director = NewDirector(PatternsDirector, FALSE)

\* ---------------------------------------------------- cloned documents
\* The objects behind a document's content, layout, style, assets and
\* animations: each field refers to an object cell with one property (val,
\* possibly absent or undefined) and one array-valued property (items).
MaxMutations == 3  \* in-place changes made to the two documents in one run

FieldOrder == <<"content", "layout", "style", "assets", "animations">>
Fields == {FieldOrder[k] : k \in 1..Len(FieldOrder)}

ArrayCell(elems) == [hasVal |-> FALSE, val |-> Undefined, items |-> 0, elems |-> elems]
ObjectCell(hasVal, val, items) ==
    [hasVal |-> hasVal, val |-> val, items |-> items, elems |-> <<>>]

\* what a document's fields hold, read through its references
Value(cells, d) ==
    [f \in Fields |->
        LET o == cells[d.refs[f]]
        IN [hasVal |-> o.hasVal, val |-> o.val, elems |-> cells[o.items].elems]]

\* new Slide(): five objects of its own
NewHeap ==
    LET cells == [a \in 1..(2 * Len(FieldOrder)) |->
                     IF a % 2 = 1 THEN ArrayCell(<<>>) ELSE ObjectCell(TRUE, "", a - 1)]
        original == [id |-> 0, refs |-> [f \in Fields |->
                        2 * (CHOOSE k \in 1..Len(FieldOrder) : FieldOrder[k] = f)]]
    IN [cells |-> cells, original |-> original, copy |-> original, cloned |-> FALSE,
        mutations |-> 0, op |-> "new", frame |-> Value(cells, original)]

\* JSON.parse(JSON.stringify(object)): new cells for the object and its
\* array; a property whose value is undefined is left out
JsonCopy(cells, addr) ==
    LET o == cells[addr]
        keep == o.hasVal /\ o.val # Undefined
    IN cells \o <<ArrayCell(cells[o.items].elems),
                  ObjectCell(keep, IF keep THEN o.val ELSE Undefined, Len(cells) + 1)>>

\* a copy of the object's own properties only: the array is shared
SpreadCopy(cells, addr) ==
    LET o == cells[addr]
    IN cells \o <<ArrayCell(<<>>), ObjectCell(o.hasVal, o.val, o.items)>>

RECURSIVE CopyFields(_, _, _, _)
CopyFields(h, id, k, shallow) ==
    IF k > Len(FieldOrder) THEN h
    ELSE LET f == FieldOrder[k]
             cells == IF shallow THEN SpreadCopy(h.cells, h.original.refs[f])
                      ELSE JsonCopy(h.cells, h.original.refs[f])
         IN CopyFields([h EXCEPT !.cells = cells,
                                 !.copy.id = id,
                                 !.copy.refs[f] = Len(cells)],
                       id, k + 1, shallow)

\* clone() with {...this.field} in place of the JSON round trip
cloneObjects_Shallow(h, id) == CopyFields(h, id, 1, TRUE)

\* Slide.clone(): the five JSON round trips and the new id
cloneObjects(h, id) == CopyFields(h, id, 1, FALSE)

\* document.field.val = v
setVal(cells, d, f, v) ==
    [cells EXCEPT ![d.refs[f]].hasVal = TRUE, ![d.refs[f]].val = v]

\* document.field.items.push(e)
pushItem(cells, d, f, e) ==
    [cells EXCEPT ![cells[d.refs[f]].items].elems = Append(@, e)]

HeapIdle == heap = NewHeap

\* ------------------------------------------------ template resolution
\* a value of the data record: a string, or the number whose String() is s
Str(s) == [type |-> "string", str |-> s]
Num(s) == [type |-> "number", str |-> s]

\* the truthiness `data[key] || match` tests
Truthy(v) ==
    ~ \/ (v.type = "string" /\ v.str = "")
      \/ (v.type = "number" /\ v.str = "0")

\* a template string as the pieces /\{\{(\w+)\}\}/g cuts it into: literal
\* text, and {{key}} placeholders
Lit(t) == [isKey |-> FALSE, text |-> t]
Hole(k) == [isKey |-> TRUE, text |-> k]

\* template values: a string, a function, an object of template values by
\* field name, and anything else (a number)
TString(tokens) == [kind |-> "string", tokens |-> tokens, fn |-> "", fields |-> <<>>]
TFunction(fn) == [kind |-> "function", tokens |-> <<>>, fn |-> fn, fields |-> <<>>]
TObject(fields) == [kind |-> "object", tokens |-> <<>>, fn |-> "", fields |-> fields]
TOther == [kind |-> "other", tokens |-> <<>>, fn |-> "", fields |-> <<>>]

\* template(data) for the function data => 'Hi ' + data.name
Invoke(fn, data) ==
    TString(<<Lit("Hi "),
              Lit(IF "name" \in DOMAIN data THEN data["name"].str ELSE Undefined)>>)

\* template.replace(/\{\{(\w+)\}\}/g, (match, key) => data[key] || match)
replacePlaceholders(tokens, data) ==
    [i \in 1..Len(tokens) |->
        IF tokens[i].isKey /\ tokens[i].text \in DOMAIN data
                           /\ Truthy(data[tokens[i].text])
        THEN Lit(data[tokens[i].text].str)
        ELSE tokens[i]]

\* SlideDirector.processTemplate(template, data) on any template value
processTemplateValue(template, data) ==
    CASE template.kind = "function" -> Invoke(template.fn, data)
      [] template.kind = "string" -> TString(replacePlaceholders(template.tokens, data))
      [] OTHER -> template

\* SlideDirector.processContentTemplate(template, data) on any template value
processContentTemplateValue(template, data) ==
    CASE template.kind = "function" -> Invoke(template.fn, data)
      [] template.kind = "object" ->
           TObject([key \in DOMAIN template.fields |->
                       processTemplateValue(template.fields[key], data)])
      [] OTHER -> processTemplateValue(template, data)

NoResolution == [op |-> "new", template |-> TOther, data |-> <<>>, result |-> TOther]

\* ----------------------------------------------------- SlideEngine
\* new TenantConfiguration(config) with the fields generateSlide reads; an
\* absent string property of config is "", registration tells which
\* registerTenant call made the object
EngineTenantConfiguration(config, registration) ==
    [registered |-> TRUE,
     customBuilders |-> config.customBuilders,
     styleType |-> IF config.styleType # "" THEN config.styleType ELSE "corporate",
     primary |-> IF config.primary # "" THEN config.primary ELSE Undefined,
     defaultColumns |-> config.defaultColumns,
     validationRules |-> config.validationRules,
     requiresWatermark |-> config.requiresWatermark,
     watermark |-> config.watermark,
     registration |-> registration]

\* the registration a getTenant result comes from, 0 for undefined
RegistrationOf(tenant) == IF tenant.registered THEN tenant.registration ELSE 0

\* StrategyFactory.createStyleStrategy(tenantId): the strategy object
createStyleStrategy(ts, tenantId) ==
    LET tenant == getTenant(ts, tenantId)
    IN IF ~tenant.registered THEN [class |-> "corporate", primary |-> "#333333"]
       ELSE CASE tenant.styleType = "creative" ->
                   [class |-> "creative", primary |-> "#FF6B6B"]
              [] tenant.styleType = "custom" ->
                   [class |-> "custom", primary |-> tenant.primary]
              [] OTHER -> [class |-> "corporate", primary |-> tenant.primary]

\* getStyles() of the strategy classes; a tenant's custom strategy is taken
\* to return its configured primary colour only
getStyles(strategy) ==
    CASE strategy.class = "corporate" ->
           [primaryColor |-> strategy.primary, fontFamily |-> "Arial, sans-serif",
            spacing |-> "conservative", borderRadius |-> "4px"]
      [] strategy.class = "creative" ->
           [primaryColor |-> strategy.primary, fontFamily |-> "Montserrat, sans-serif",
            spacing |-> "generous", borderRadius |-> "12px"]
      [] strategy.class = "custom" ->
           [primaryColor |-> strategy.primary, fontFamily |-> "Custom",
            spacing |-> "custom", borderRadius |-> "0"]

\* StrategyFactory.createLayoutStrategy(layoutType, tenantId)
createLayoutStrategy(ts, layoutType, tenantId) ==
    LET tenant == getTenant(ts, tenantId)
    IN IF layoutType = "multi-column"
       THEN [class |-> "multi",
             columnCount |-> IF tenant.registered /\ tenant.defaultColumns # 0
                             THEN tenant.defaultColumns ELSE 2]
       ELSE [class |-> "single", columnCount |-> 1]

\* getLayout(layoutType) of the layout strategy classes
getLayout(strategy) ==
    IF strategy.class = "multi"
    THEN [type |-> "multi-column", columns |-> strategy.columnCount,
          alignment |-> "justify", spacing |-> "compact", gutter |-> "2rem"]
    ELSE [type |-> "single-column", columns |-> 1,
          alignment |-> "center", spacing |-> "normal", gutter |-> Undefined]

\* the tenantContext generateSlide puts together from the strategies and
\* the tenant record it reads last
EngineContext(styleStrategy, layoutStrategy, tenant) ==
    [NoContext EXCEPT
       !.styleStrategy = getStyles(styleStrategy),
       !.layoutStrategy = getLayout(layoutStrategy),
       !.requiresWatermark = tenant.registered /\ tenant.requiresWatermark,
       !.watermark = IF tenant.registered THEN tenant.watermark ELSE "",
       !.hasRules = tenant.registered,
       !.validationRules = IF tenant.registered THEN tenant.validationRules ELSE <<>>]

\* the builder kind of the instance createBuilder returned; a tenant's custom
\* builder implements every operation, as the TestSlideBuilder does
KindOf(instance) ==
    CASE instance = "TextSlideBuilder" -> "text"
      [] instance = "ChartSlideBuilder" -> "chart"
      [] OTHER -> "test"

\* the slideRequest argument: data.layoutType is kept next to data
SlideRequest(type, tenantId, data, layoutType) ==
    [type |-> type, tenantId |-> tenantId, data |-> data, layoutType |-> layoutType]

\* a SlideEngine with no request in flight; reads lists the registrations
\* the registry reads of the request returned
NoRequest ==
    [pc |-> "idle", request |-> SlideRequest("", "", NullSlideData, ""),
     instance |-> Null, styleStrategy |-> [class |-> "corporate", primary |-> ""],
     layoutStrategy |-> [class |-> "single", columnCount |-> 1],
     reads |-> <<>>, registrations |-> 0]

EngineIdle ==
    /\ engine = NoRequest
    /\ resolved = NoResolution

ServiceIdle ==
    AiIdle /\ RegistryIdle /\ FactoryIdle /\ DirectorIdle /\ HeapIdle /\ EngineIdle

DocIdle ==
    /\ doc = NewSlide(0)
    /\ docCleared = FALSE
    /\ docOp = "new"

BuilderIdle ==
    /\ builder = NewBuilder("text", 0)
    /\ lastOp = "new"
    /\ lastArg = ""
    /\ raised = "none"

\* a builder of any of the classes, just constructed
Init ==
    /\ DocIdle
    /\ \E k \in BuilderKinds : builder = NewBuilder(k, 0)
    /\ lastOp = "new"
    /\ lastArg = ""
    /\ raised = "none"
    /\ nextId = 1
    /\ ServiceIdle

Next ==
    \/ Reset
    \/ SetTitle
    \/ SetContent
    \/ SetContentTemplate
    \/ AddSpeaker
    \/ AddMessage({KobeName, KanyeName}, {"Hi", LongText}, {NoOptions})
    \/ AddMessageWithCode({KobeName}, {""})
    \/ Finalize
    \/ Validate
    \/ GetResult
    \/ TenantRuleError

Spec == Init /\ [][Next]_vars

\* a new Slide, nothing else in use
DocumentInit ==
    /\ DocInit
    /\ BuilderIdle
    /\ ServiceIdle

SpecDocument == DocumentInit /\ [][DocNext]_vars

\* ------------------------------------------- SpecDialogue: the aggregate
Aggregate == builder.dialogueContent

SpeakerIds(d) == {d.speakers[i].id : i \in 1..Len(d.speakers)}

\* a call on builder.dialogueContent itself: no build step is recorded
AggregateCall(op, d) ==
    Call(op, "", Ok([builder EXCEPT !.dialogueContent = d]))

\* dialogueContent.addSpeaker(Speaker.createKanyeWest())
DcAddSpeaker ==
    \E sp \in {createKanyeWest(nextId)} :
        /\ nextId < MaxIds
        /\ AggregateCall("DialogueContent.addSpeaker", DC_addSpeaker(Aggregate, sp))
        /\ nextId' = nextId + 1
        /\ UNCHANGED <<docVars, serviceVars>>

\* dialogueContent.addMessage(message): the message's speakerId is whatever
\* the caller assigned: the id of a speaker of the aggregate, or the '' of a
\* new Message() (0)
DcAddMessage ==
    \E sid \in SpeakerIds(Aggregate) \cup {0}, t \in {"Hi"} :
        /\ Len(Aggregate.messages) < MaxMessages
        /\ AggregateCall("DialogueContent.addMessage",
                         DC_addMessage(Aggregate,
                                       NewMessage(sid, t, Len(Aggregate.messages),
                                                  0, "none")))
        /\ UNCHANGED <<nextId, docVars, serviceVars>>

DcClearSpeakers ==
    /\ AggregateCall("DialogueContent.clearSpeakers", DC_clearSpeakers(Aggregate))
    /\ UNCHANGED <<nextId, docVars, serviceVars>>

DcClearMessages ==
    /\ AggregateCall("DialogueContent.clearMessages", DC_clearMessages(Aggregate))
    /\ UNCHANGED <<nextId, docVars, serviceVars>>

\* builder.setContent(DialogueContent.fromJSON(data)), data being the
\* toJSON() record of the aggregate, whole or without its speakers list
SetContentFromJSON ==
    \E withSpeakers \in BOOLEAN :
        /\ Room(1)
        /\ LET data == [DC_toJSON(Aggregate) EXCEPT
                            !.speakers = IF withSpeakers THEN @ ELSE <<>>]
           IN Call("setContent", "",
                   Ok(setDialogueContent(builder, DC_fromJSON(data))))
        /\ UNCHANGED <<nextId, docVars, serviceVars>>

DialogueInit ==
    /\ DocIdle
    /\ builder = NewBuilder("dialogue", 0)
    /\ lastOp = "new"
    /\ lastArg = ""
    /\ raised = "none"
    /\ nextId = 1
    /\ ServiceIdle

\* the dialogue builder's own operations
DialogueNext ==
    \/ Reset
    \/ AddSpeaker
    \/ AddMessage(SpeakerNames, {"Hi", LongText}, MessageOptions)
    \/ AddMessageWithCode(SpeakerNames, {"x := 1"})
    \/ SetContent
    \/ SetContentTemplate

SpecDialogue == DialogueInit /\ [][DialogueNext]_vars

\* the operations that build the aggregate: the builder's and DialogueContent's
AggregateNext ==
    \/ Reset
    \/ AddSpeaker
    \/ AddMessage({KobeName}, {"Hi"}, {NoOptions})
    \/ AddMessageWithCode({KanyeName}, {"x := 1"})
    \/ SetContentFromJSON
    \/ DcAddSpeaker
    \/ DcAddMessage
    \/ DcClearSpeakers
    \/ DcClearMessages

SpecAggregate == DialogueInit /\ [][AggregateNext]_vars

\* ------------------------------------------------- SpecAI: AIService
MaxDataMessages == 2

\* dialogueData.messages: the lists of at most MaxDataMessages entries
DialogueData == UNION {[1..n -> MessageData] : n \in 0..MaxDataMessages}

\* generateDialogue as ContentPipeline calls it: kobe and kanye come from two
\* Speaker factory calls, then buildDialogueContent runs on the parsed reply
GenerateDialogue ==
    \E messages \in DialogueData :
        /\ nextId + 3 <= MaxIds
        /\ LET kobe == createKobeBryant(nextId)
               kanye == createKanyeWest(nextId + 1)
           IN ai' = [op |-> "buildDialogueContent", kobe |-> kobe, kanye |-> kanye,
                     dialogue |-> buildDialogueContent("Learn Go", messages, kobe,
                                                       kanye, nextId + 2, nextId + 3),
                     raised |-> "none"]
        /\ nextId' = nextId + 4
        /\ UNCHANGED <<docVars, builderVars, registryVars, factoryVars, directorVars>>

\* step 4 of ContentPipeline.generateDialogueContent: dialogueContent.validate()
\* and the throw on an invalid dialogue
ValidateDialogue ==
    /\ ai.op = "buildDialogueContent"
    /\ ai' = [ai EXCEPT !.op = "validate",
                        !.raised = IF DC_validate(ai.dialogue).isValid THEN "none"
                                   ELSE "Invalid dialogue generated"]
    /\ UNCHANGED <<nextId, docVars, builderVars, registryVars, factoryVars, directorVars>>

AiInit ==
    /\ DocIdle
    /\ BuilderIdle
    /\ ServiceIdle
    /\ nextId = 1

AiNext == GenerateDialogue \/ ValidateDialogue

SpecAI == AiInit /\ [][AiNext]_vars

\* ------------------------------------- SpecRegistry: BuilderRegistry
MaxBulk == 2

Maps == [registry |-> registry, metadata |-> metadata]

RegistryCall(r, call) ==
    /\ registry' = r.registry
    /\ metadata' = r.metadata
    /\ regCall' = call
    /\ UNCHANGED <<nextId, docVars, builderVars, ai, factoryVars, directorVars>>

RegisterBuilder ==
    \E slideType \in RegistryKeys \cup {""},
       builderClass \in BuilderClasses \cup NotConstructors,
       md \in {"undefined", Null} :
        LET out == registerBuilder(Maps, slideType, builderClass, md)
        IN RegistryCall(out.r, [NoRegistryCall EXCEPT !.op = "registerBuilder",
                                                      !.slideType = slideType,
                                                      !.builderClass = builderClass,
                                                      !.raised = out.error])

UnregisterBuilder ==
    \E slideType \in RegistryKeys :
        RegistryCall(unregisterBuilder(Maps, slideType),
                     [NoRegistryCall EXCEPT !.op = "unregisterBuilder",
                                            !.slideType = slideType])

\* getBuilder(slideType) / createBuilder(slideType)
GetBuilder ==
    \E slideType \in RegistryKeys \cup {""}, op \in {"getBuilder", "createBuilder"} :
        LET out == getBuilder(Maps, slideType)
        IN RegistryCall(Maps, [NoRegistryCall EXCEPT !.op = op,
                                                     !.slideType = slideType,
                                                     !.builderClass = out.class,
                                                     !.raised = out.error])

BulkRegister ==
    \E n \in 0..MaxBulk :
        \E builders \in [1..n -> BulkEntries] :
            LET out == bulkRegister(Maps, builders, 1, <<>>)
            IN RegistryCall(out.r, [NoRegistryCall EXCEPT !.op = "bulkRegister",
                                                          !.builders = builders,
                                                          !.results = out.results,
                                                          !.raised = out.error])

RegistryInit ==
    /\ DocIdle
    /\ BuilderIdle
    /\ ServiceIdle
    /\ nextId = 1

RegistryNext ==
    \/ RegisterBuilder
    \/ UnregisterBuilder
    \/ GetBuilder

SpecRegistry == RegistryInit /\ [][RegistryNext]_vars

\* bulk registration, with removal and lookup
BulkNext ==
    \/ BulkRegister
    \/ UnregisterBuilder
    \/ GetBuilder

SpecBulk == RegistryInit /\ [][BulkNext]_vars

\* --------------------------------------- SpecFactory: BuilderFactory
\* TenantRegistry.registerTenant(tenantId, {customBuilders})
RegisterTenant ==
    \E tenantId \in TenantIds, customBuilders \in CustomBuilderMaps :
        /\ tenants' = [tenants EXCEPT ![tenantId] = TenantConfiguration(customBuilders)]
        /\ made' = [NoFactoryCall EXCEPT !.op = "registerTenant",
                                         !.tenantId = tenantId]
        /\ UNCHANGED <<nextId, docVars, builderVars, ai, registryVars, directorVars>>

RemoveTenant ==
    \E tenantId \in TenantIds :
        /\ tenants' = [tenants EXCEPT ![tenantId] = NoTenant]
        /\ made' = [NoFactoryCall EXCEPT !.op = "removeTenant",
                                         !.tenantId = tenantId]
        /\ UNCHANGED <<nextId, docVars, builderVars, ai, registryVars, directorVars>>

\* BuilderFactory.createBuilder(slideType, tenantId), the tenant id being a
\* registered one or not
CreateBuilder ==
    \E slideType \in FactoryKeys, tenantId \in TenantIds \cup {"unknown"} :
        LET out == createBuilder(tenants, slideType, tenantId)
        IN /\ made' = [op |-> "createBuilder", slideType |-> slideType,
                       tenantId |-> tenantId, instance |-> out.instance,
                       raised |-> out.error]
           /\ UNCHANGED <<tenants, nextId, docVars, builderVars, ai, registryVars, directorVars>>

FactoryInit ==
    /\ DocIdle
    /\ BuilderIdle
    /\ ServiceIdle
    /\ nextId = 1

FactoryNext ==
    \/ RegisterTenant
    \/ RemoveTenant
    \/ CreateBuilder

SpecFactory == FactoryInit /\ [][FactoryNext]_vars

\* ---------------------------------------------------------------- C1
\* the messages of a list of validation entries
Messages(entries) == {entries[i].msg : i \in 1..Len(entries)}

\* no entry occurs twice in the list
NoRepeats(entries) ==
    \A i, j \in 1..Len(entries) : entries[i] = entries[j] => i = j

\* C1: the document getResult() returns has just been validated: its
\* validation record is what the universal and type-specific rules give for
\* the document (and, for the dialogue builder, the aggregate) as they are at
\* the moment of return.
C1_ResultJustValidated ==
    (lastOp = "getResult") =>
        LET s == builder.slide
            v == s.validation
        IN /\ v = validate(builder).slide.validation
           /\ v.isValid <=> (v.errors = <<>>)
           /\ ("Title is required" \in Messages(v.errors)) <=> IsBlank(s.title)
           /\ ("Slide type must be specified" \in Messages(v.errors)) <=> (s.type = Null)
           /\ ("Slide has no content" \in Messages(v.warnings)) <=> (s.content.keys = {})
           /\ TenantRuleMessage.msg \notin Messages(v.errors)
           /\ IsDialogue =>
                /\ "dialogue" \in s.content.keys
                /\ ("Dialogue: Dialogue must have at least one message"
                        \in Messages(v.errors))
                     <=> (builder.dialogueContent.messages = <<>>)

\* a dialogue builder returned a valid slide with a turn in it
C1_Witness ==
    /\ lastOp = "getResult"
    /\ IsDialogue
    /\ builder.dialogueContent.messages # <<>>
    /\ builder.slide.validation.isValid

\* ---------------------------------------------------------------- C3
\* C3: validate() recomputes the validation record from the document's
\* current state only: nothing of an earlier pass is left in it (no error
\* attached by tenant-rule evaluation, no entry twice), and a pass that
\* directly follows a pass (validate() or getResult()) leaves the record as
\* that pass left it: same errors, same warnings, same order.
C3_ValidateFromScratch ==
    [][(lastOp' = "validate") =>
          LET v == builder'.slide.validation
          IN /\ TenantRuleMessage \notin {v.errors[i] : i \in 1..Len(v.errors)}
             /\ NoRepeats(v.errors)
             /\ NoRepeats(v.warnings)
             /\ ("Title is required" \in Messages(v.errors))
                    <=> IsBlank(builder'.slide.title)
             /\ (lastOp \in {"validate", "getResult"})
                    => v = builder.slide.validation]_vars

\* a pass ran on a slide that has both errors and warnings
C3_Witness ==
    /\ lastOp = "validate"
    /\ builder.slide.validation.errors # <<>>
    /\ builder.slide.validation.warnings # <<>>
    /\ IsDialogue
    /\ builder.dialogueContent.messages # <<>>

C4_UnknownSpeakerRejected ==
    [][(lastOp' \in {"addMessage", "addMessageWithCode"}) =>
          IF DC_getSpeakerByName(builder.dialogueContent, lastArg') = <<>>
          THEN /\ raised' = "Speaker not found"
               /\ builder' = builder
          ELSE /\ raised' = "none"
               /\ Len(builder'.buildSteps) = Len(builder.buildSteps) + 1
               /\ Len(builder'.dialogueContent.messages)
                      = Len(builder.dialogueContent.messages) + 1]_vars

\* addMessage raised although the dialogue has a participant and a message
C4_Witness ==
    /\ lastOp = "addMessage"
    /\ raised = "Speaker not found"
    /\ builder.dialogueContent.speakers # <<>>
    /\ builder.dialogueContent.messages # <<>>
    /\ DC_getSpeakerByName(builder.dialogueContent, lastArg) = <<>>

\* ---------------------------------------------------------------- C5

\* C5: every message of the aggregate references a participant of the same
\* aggregate, in every state the builder's and DialogueContent's operations
\* reach
C5_ReferentialIntegrity ==
    \A i \in 1..Len(Aggregate.messages) :
        Aggregate.messages[i].speakerId \in SpeakerIds(Aggregate)

\* ---------------------------------------------------------------- C6

\* C6: the dialogue that buildDialogueContent returns for a kobe and a kanye
\* made by separate factory calls lists the speakers its messages reference:
\* every message's speakerId is the id of a speaker of the returned dialogue,
\* and validate() reports no 'References non-existent speaker ID'
C6_SameSpeakerInstances ==
    (ai.op # "new") =>
        /\ \A i \in 1..Len(ai.dialogue.messages) :
               ai.dialogue.messages[i].speakerId \in SpeakerIds(ai.dialogue)
        /\ "Message: References non-existent speaker ID"
               \notin Messages(DC_validate(ai.dialogue).errors)

\* ---------------------------------------------------------------- C7

\* C7: registerBuilder(K, C) with a class C whose instances lack one of the
\* required operations raises and leaves the registry map and the metadata
\* map as they were; a K not registered before stays unregistered and
\* getBuilder(K) raises
C7_MissingOperationRejected ==
    [][(/\ regCall'.op = "registerBuilder"
        /\ regCall'.builderClass \in BuilderClasses
        /\ ~(BuilderOperations \subseteq Methods(regCall'.builderClass)))
       => /\ regCall'.raised # "none"
          /\ registry' = registry
          /\ metadata' = metadata
          /\ ~hasBuilder(Maps, regCall'.slideType)
                 => getBuilder([registry |-> registry', metadata |-> metadata'],
                               regCall'.slideType).error # "none"]_vars

\* ---------------------------------------------------------------- C8

\* C8: a class found registered implements the full operation set (setTitle,
\* setSubtitle, setContent, setLayout, setStyle, getResult) itself: none of
\* them is the base builder's throwing 'Must implement ...' version
C8_OnlyFullImplementationsRegistered ==
    \A k \in RegistryKeys :
        registry[k] # Null => BuilderOperations \subseteq Implemented(registry[k])

\* ---------------------------------------------------------------- C9

\* C9: bulkRegister(list) does not raise; it returns one result per entry, in
\* input order, with success true exactly when the entry alone registers; a
\* key ends up bound to the class of its last valid entry, and a key with no
\* valid entry keeps the registration (or the absence of one) it had
C9_BulkRegisterIsolates ==
    [][(regCall'.op = "bulkRegister") =>
          LET bs == regCall'.builders
              rs == regCall'.results
              Valid(i) ==
                  /\ ~bs[i].isNull
                  /\ registerBuilder(EmptyRegistry, bs[i].slideType,
                                     bs[i].builderClass, bs[i].metadata).error = "none"
          IN /\ regCall'.raised = "none"
             /\ Len(rs) = Len(bs)
             /\ \A i \in 1..Len(rs) :
                    /\ rs[i].slideType = bs[i].slideType
                    /\ rs[i].success <=> Valid(i)
             /\ \A k \in RegistryKeys :
                    LET validFor == {i \in 1..Len(bs) :
                                         Valid(i) /\ bs[i].slideType = k}
                    IN IF validFor = {}
                       THEN registry'[k] = registry[k] /\ metadata'[k] = metadata[k]
                       ELSE LET last == CHOOSE i \in validFor :
                                            \A j \in validFor : j <= i
                            IN registry'[k] = bs[last].builderClass]_vars

\* --------------------------------------------------------------- C10

\* the default builders README.md documents for BuilderFactory
DocumentedDefault(slideType) ==
    CASE slideType = "text" -> "TextSlideBuilder"
      [] slideType = "chart" -> "ChartSlideBuilder"
      [] slideType = "dialogue" -> "DialogueSlideBuilder"

\* C10: createBuilder(K, T) for a documented content type K (text, chart,
\* dialogue) returns an instance of X when T's configuration declares the
\* override K -> X, and an instance of the documented default builder for K
\* when T has no override for K or is not registered
C10_OverrideOrDefault ==
    (made.op = "createBuilder" /\ made.slideType \in {"text", "chart", "dialogue"}) =>
        LET tenant == getTenant(tenants, made.tenantId)
            override == IF made.slideType \in DOMAIN tenant.customBuilders
                        THEN tenant.customBuilders[made.slideType] ELSE "absent"
        IN /\ (tenant.registered /\ override \notin {"absent", Null})
                  => (made.raised = "none" /\ made.instance = override)
           /\ (~tenant.registered \/ override = "absent")
                  => (made.raised = "none"
                      /\ made.instance = DocumentedDefault(made.slideType))

\* --------------------------------------------------------------- C11

\* C11: createBuilder(K, T) either returns a builder instance or raises: it
\* never returns null, not even when the tenant's customBuilders has an entry
\* for K that holds no constructor
C11_InstanceOrRaise ==
    (made.op = "createBuilder") =>
        (made.raised # "none" \/ made.instance # Null)

\* --------------------------------------------------------------- C19

\* C19: a clone is not pre-validated: the document clone() returns does not
\* report validation.isValid = true, whatever the original (an original with
\* an empty title and no type included)
C19_CloneNotPreValidated ==
    (docOp = "clone") => ~doc.validation.isValid


\* --------------------------------- SpecRoundTrip: toJSON / fromJSON
Subtitles == {"Sub"}
LayoutArgs == {<<>>, [columns |-> 2]}
StyleArgs == {<<>>, [theme |-> "dark"]}

SetSubtitle ==
    \E s \in Subtitles :
        /\ Room(1)
        /\ Call("setSubtitle", "", setSubtitle(builder, s))
        /\ UNCHANGED <<nextId, docVars, serviceVars>>

SetLayout ==
    \E l \in LayoutArgs :
        /\ Room(1)
        /\ Call("setLayout", "", Ok(setLayout(builder, l)))
        /\ UNCHANGED <<nextId, docVars, serviceVars>>

SetStyle ==
    \E s \in StyleArgs :
        /\ Room(1)
        /\ Call("setStyle", "", Ok(setStyle(builder, s)))
        /\ UNCHANGED <<nextId, docVars, serviceVars>>

\* Slide.fromJSON(builder.slide.toJSON()), kept in doc
RoundTrip ==
    /\ Call("roundTrip", "", Ok(builder))
    /\ doc' = fromJSON(toJSON(builder.slide), 0)
    /\ docOp' = "fromJSON"
    /\ UNCHANGED <<nextId, docCleared, serviceVars>>

RoundTripNext ==
    \/ SetTitle
    \/ SetSubtitle
    \/ SetLayout
    \/ SetStyle
    \/ GetResult
    \/ RoundTrip

SpecRoundTrip == Init /\ [][RoundTripNext]_vars

\* C17: the document rebuilt from a document's serialised form equals the
\* document field for field, with no key added, dropped or defaulted
C17_RoundTripIdentity ==
    (lastOp = "roundTrip") => doc = builder.slide


\* ------------------------------------------ SpecReset: builder reuse
\* a builder of any class, the second dialogue builder included
ResetInit ==
    /\ DocIdle
    /\ \E k \in AllBuilderKinds : builder = NewBuilder(k, 0)
    /\ lastOp = "new"
    /\ lastArg = ""
    /\ raised = "none"
    /\ nextId = 1
    /\ ServiceIdle

ResetNext ==
    \/ Reset
    \/ SetTitle
    \/ SetContent
    \/ SetContentTemplate
    \/ GetResult

SpecReset == ResetInit /\ [][ResetNext]_vars

\* C20: after reset() the builder is, apart from the document's identity,
\* in the state of a freshly constructed builder of the same class
C20_ResetIsFresh ==
    (lastOp = "reset") =>
        [builder EXCEPT !.slide.id = 0] = NewBuilder(builder.kind, 0)


\* ------------------------------------------ SpecDirector: the sequences
MaxCalls == 2      \* sequence invocations in one run
MaxBatch == 3      \* inputs of one buildMultipleSlides call

DirectorKinds == {"text", "chart", "test", PassThroughKind}

GoodData == SlideData("Title", "", StringContent("Hi"))
BlankData == SlideData("", "", StringContent("Hi"))
SubtitledData == SlideData("Title", "Sub", StringContent("Hi"))
MarkedData == SlideData("Title", "", ObjectContent("Hi", "DRAFT"))
FullData ==
    [GoodData EXCEPT !.layout = [columns |-> 2], !.style = [color |-> "blue"],
                     !.animations = [entrance |-> "fade"],
                     !.assets = << <<"images", "a.png">> >>,
                     !.tenantId = "test-tenant"]

DataInputs ==
    {GoodData, BlankData, SubtitledData, MarkedData, FullData,
     SlideData("Title", "", UndefinedContent), NullSlideData}

RuleLists ==
    {<<Rule("Rule A", o1), Rule("Rule B", o2)>> : o1, o2 \in RuleOutcomes}
      \cup {<<Rule("", "false")>>}

Watermarked == [NoContext EXCEPT !.requiresWatermark = TRUE, !.watermark = "CONFIDENTIAL"]
FullContext ==
    [Watermarked EXCEPT !.tenantId = "test-tenant", !.complianceLevel = "high",
                        !.branding = "logo",
                        !.layoutStrategy = [type |-> "grid"],
                        !.styleStrategy = [theme |-> "corporate"]]

ContextInputs ==
    {NoContext, Watermarked, FullContext}
      \cup {[NoContext EXCEPT !.hasRules = TRUE, !.validationRules = rl] : rl \in RuleLists}

Template(title, subtitle, content) ==
    [isNull |-> FALSE, titleTemplate |-> title, subtitleTemplate |-> subtitle,
     contentTemplate |-> content]
TemplateInputs ==
    {Template(NameTemplate, "", ObjectContent("Hello", "")),
     Template(NameTemplate, "Sub", StringContent("Hello")),
     [Template("", "", UndefinedContent) EXCEPT !.isNull = TRUE]}
TemplateData == {[name |-> "John"], [name |-> ""]}

\* lists of at most n elements of S
RECURSIVE ListsUpTo(_, _)
ListsUpTo(S, n) ==
    IF n = 0 THEN {<<>>}
    ELSE LET shorter == ListsUpTo(S, n - 1)
         IN shorter \cup {Append(l, x) : l \in shorter, x \in S}

IsPatterns == director.class = PatternsDirector

\* ensureBuilder() in front of a sequence
Ensured(r) ==
    IF director.hasBuilder THEN r
    ELSE DirResult(builder, "No builder assigned to director", <<>>, <<>>)

\* director d after a call of a sequence with result r on the inputs given
DirectorAfter(d, method, r, slidesData, ctx) ==
    [d EXCEPT !.constructionHistory = @ \o r.entries,
              !.logged = r.console,
              !.invoked = Append(@, method),
              !.op = method,
              !.error = r.error,
              !.returned = r.returned,
              !.slidesData = slidesData,
              !.tenantContext = ctx,
              !.evaluated = r.evaluated,
              !.attached = r.attached]

\* what a call of a sequence with result r on the inputs given leaves behind
DirectorEffect(method, r, slidesData, ctx) ==
    /\ builder' = r.b
    /\ lastOp' = method
    /\ lastArg' = ""
    /\ raised' = r.error
    /\ director' = DirectorAfter(director, method, r, slidesData, ctx)

DirectorCall(method, r, slidesData, ctx) ==
    /\ DirectorEffect(method, r, slidesData, ctx)
    /\ UNCHANGED <<docVars, ai, registryVars, factoryVars, heap, engineVars>>

SetBuilder ==
    /\ IsPatterns
    /\ ~director.hasBuilder
    /\ director' = [director EXCEPT !.hasBuilder = TRUE, !.op = "setBuilder",
                                    !.error = "none", !.returned = <<>>]
    /\ UNCHANGED <<nextId, docVars, builderVars, ai, registryVars, factoryVars, heap, engineVars>>

BuildBasicSlide ==
    \E data \in DataInputs :
        /\ IsPatterns
        /\ Len(director.invoked) < MaxCalls
        /\ \E r \in {Ensured(buildBasicSlide(builder, data, nextId))} :
              DirectorCall("buildBasicSlide", r, <<data>>, NoContext)
        /\ nextId' = nextId + 1

BuildStyledSlide ==
    \E data \in DataInputs :
        /\ IsPatterns
        /\ Len(director.invoked) < MaxCalls
        /\ \E r \in {Ensured(buildStyledSlide(builder, data, nextId))} :
              DirectorCall("buildStyledSlide", r, <<data>>, NoContext)
        /\ nextId' = nextId + 1

BuildAdvancedSlide(datas, contexts) ==
    \E data \in datas, ctx \in contexts :
        /\ IsPatterns
        /\ Len(director.invoked) < MaxCalls
        /\ \E r \in {Ensured(buildAdvancedSlide(builder, data, ctx, nextId))} :
              DirectorCall("buildAdvancedSlide", r, <<data>>, ctx)
        /\ nextId' = nextId + 1

BuildFromTemplate ==
    \E template \in TemplateInputs, data \in TemplateData,
       ctx \in {NoContext, Watermarked} :
        /\ IsPatterns
        /\ Len(director.invoked) < MaxCalls
        /\ \E r \in {Ensured(buildFromTemplate(builder, template, data, ctx, nextId))} :
              DirectorCall("buildFromTemplate", r, <<>>, ctx)
        /\ nextId' = nextId + 1

BuildMultipleSlides(datas, contexts) ==
    \E slidesData \in ListsUpTo(datas, MaxBatch), ctx \in contexts :
        /\ IsPatterns
        /\ Len(director.invoked) < MaxCalls
        /\ \E r \in {buildMultipleSlides(DirResult(builder, "none", <<>>, <<>>), director.hasBuilder, slidesData, ctx, nextId, 1)} :
              DirectorCall("buildMultipleSlides", r, slidesData, ctx)
        /\ nextId' = nextId + Len(slidesData)

ClearHistory ==
    /\ IsPatterns
    /\ director.constructionHistory # <<>>
    /\ director' = [director EXCEPT !.constructionHistory = <<>>, !.cleared = TRUE,
                                    !.op = "clearHistory",
                                    !.error = "none", !.returned = <<>>]
    /\ UNCHANGED <<nextId, docVars, builderVars, ai, registryVars, factoryVars, heap, engineVars>>

\* tenants of the second director: with a style strategy, and one without
VoiceContextInputs ==
    {[ctx EXCEPT !.styleStrategy = [theme |-> "corporate"]] : ctx \in ContextInputs}
      \cup {NoContext}

\* buildAdvancedSlide of the SlideDirector class in factories/VoiceFactory.js
VoiceBuildAdvancedSlide ==
    \E data \in DataInputs, ctx \in VoiceContextInputs :
        /\ ~IsPatterns
        /\ Len(director.invoked) < MaxCalls
        /\ Len(builder.buildSteps) + 4 <= MaxSteps
        /\ \E r \in {VF_buildAdvancedSlide(builder, data, ctx)} :
              DirectorCall("buildAdvancedSlide", r, <<data>>, ctx)
        /\ UNCHANGED nextId

\* new SlideDirector(builder) or new SlideDirector() of either class, the
\* builder of any of the classes the director is used with
DirectorInit ==
    /\ DocIdle
    /\ \E k \in DirectorKinds : builder = NewBuilder(k, 0)
    /\ lastOp = "new"
    /\ lastArg = ""
    /\ raised = "none"
    /\ nextId = 1
    /\ AiIdle /\ RegistryIdle /\ FactoryIdle /\ HeapIdle /\ EngineIdle
    /\ \E class \in DirectorClasses, has \in BOOLEAN :
          /\ class = FactoriesDirector => has
          /\ director = NewDirector(class, has)

DirectorNext ==
    \/ SetBuilder
    \/ BuildBasicSlide
    \/ BuildStyledSlide
    \/ BuildAdvancedSlide(DataInputs, ContextInputs)
    \/ BuildFromTemplate
    \/ BuildMultipleSlides({GoodData, SubtitledData, NullSlideData}, {NoContext, Watermarked})
    \/ ClearHistory
    \/ VoiceBuildAdvancedSlide

SpecDirector == DirectorInit /\ [][DirectorNext]_vars


\* the last call was buildAdvancedSlide and it got as far as returning
AdvancedReturned ==
    /\ director.op = "buildAdvancedSlide"
    /\ director.error = "none"

LastRules == director.tenantContext.validationRules

\* C13: every invocation of a sequence, returning or raising, appends exactly
\* one entry to the construction history, in invocation order
C13_OneEntryPerInvocation ==
    (director.class = PatternsDirector /\ ~director.cleared) =>
        /\ Len(director.constructionHistory) = Len(director.invoked)
        /\ \A i \in 1..Len(director.invoked) :
              director.constructionHistory[i].method = director.invoked[i]

\* C14: once the Advanced sequence has built the document, no tenant rule
\* aborts it: the call returns, every rule was evaluated once in list order,
\* and the document has one more error for each rule that returned false or
\* threw and none for the others
C14_RulesNeverAbort ==
    (/\ director.op = "buildAdvancedSlide"
     /\ director.tenantContext.hasRules
     /\ (director.error = "none" \/ director.evaluated # <<>>)) =>
        /\ director.error = "none"
        /\ director.evaluated = [i \in 1..Len(LastRules) |-> i]
        /\ Len(director.attached) = Len(LastRules)
        /\ \A i \in 1..Len(LastRules) :
              Len(director.attached[i]) = IF LastRules[i].outcome = "true" THEN 0 ELSE 1
        /\ director.returned[1].validation.errors =
              validate([builder EXCEPT !.slide = director.returned[1]]).slide.validation.errors
                \o Flatten(director.attached, Len(director.attached))

\* C15: the error attached for a rule that threw tells that rule from every
\* differently named rule of the list throwing the same exception
C15_ThrowingRuleNamed ==
    (AdvancedReturned /\ director.class = PatternsDirector
       /\ director.tenantContext.hasRules) =>
        \A i, j \in 1..Len(LastRules) :
            (/\ LastRules[i].outcome = "throws"
             /\ LastRules[j].message # LastRules[i].message) =>
                /\ director.attached[i] # <<>>
                /\ director.attached[i][1] #
                     RuleThrewError([LastRules[j] EXCEPT
                                        !.exception = LastRules[i].exception])

\* C16: with a tenant context that requires a watermark and configures its
\* text, the document buildAdvancedSlide returns has that text as
\* content.watermark
C16_WatermarkIsTenants ==
    (/\ AdvancedReturned
     /\ director.tenantContext.requiresWatermark
     /\ director.tenantContext.watermark # "") =>
        director.returned[1].content.watermark = director.tenantContext.watermark


\* ------------------------------------------- SpecBatch: batch building
BatchData == {GoodData, NullSlideData}
BatchKinds == {"text", "test"}
BatchContexts == {NoContext, Watermarked}

\* new SlideDirector(builder) / new SlideDirector() of patterns/SlideDirector.js
BatchInit ==
    /\ DocIdle
    /\ \E k \in BatchKinds : builder = NewBuilder(k, 0)
    /\ lastOp = "new"
    /\ lastArg = ""
    /\ raised = "none"
    /\ nextId = 1
    /\ AiIdle /\ RegistryIdle /\ FactoryIdle /\ HeapIdle /\ EngineIdle
    /\ \E has \in BOOLEAN : director = NewDirector(PatternsDirector, has)

BatchNext ==
    \/ SetBuilder
    \/ BuildMultipleSlides(BatchData, BatchContexts)
    \/ ClearHistory

SpecBatch == BatchInit /\ [][BatchNext]_vars

\* buildAdvancedSlide on the input alone, with a builder of the same class
Alone(data) ==
    IF director.hasBuilder
    THEN buildAdvancedSlide(NewBuilder(builder.kind, 0), data, director.tenantContext, 0)
    ELSE DirResult(builder, "No builder assigned to director", <<>>, <<>>)

\* the positions of the inputs of the last call that make the sequence raise
FailingInputs ==
    {i \in 1..Len(director.slidesData) : Alone(director.slidesData[i]).error # "none"}

\* the inputs that do not, in input order
BuiltInputs == SelectSeq(director.slidesData, LAMBDA data : Alone(data).error = "none")

\* equal apart from the id
SameDocument(a, b) == [a EXCEPT !.id = 0] = [b EXCEPT !.id = 0]

Vals == {"x", Undefined}

Target(which) == IF which = "original" THEN heap.original ELSE heap.copy
Other(which) == IF which = "original" THEN heap.copy ELSE heap.original

\* an in-place change of a field of the original or of the clone; frame
\* keeps what the other document held before it
MutateVal ==
    \E which \in {"original", "clone"}, f \in Fields, v \in Vals :
        /\ which = "clone" => heap.cloned
        /\ heap.mutations < MaxMutations
        /\ heap' = [heap EXCEPT !.cells = setVal(@, Target(which), f, v),
                                !.mutations = @ + 1,
                                !.op = "mutate " \o which,
                                !.frame = Value(heap.cells, Other(which))]
        /\ UNCHANGED <<nextId, docVars, builderVars, ai, registryVars, factoryVars, director, engineVars>>

MutateItems ==
    \E which \in {"original", "clone"}, f \in Fields :
        /\ which = "clone" => heap.cloned
        /\ heap.mutations < MaxMutations
        /\ heap' = [heap EXCEPT !.cells = pushItem(@, Target(which), f, "e"),
                                !.mutations = @ + 1,
                                !.op = "mutate " \o which,
                                !.frame = Value(heap.cells, Other(which))]
        /\ UNCHANGED <<nextId, docVars, builderVars, ai, registryVars, factoryVars, director, engineVars>>

\* original.clone(); frame keeps what the original held before the call
Clone ==
    /\ ~heap.cloned
    /\ heap' = [cloneObjects(heap, nextId) EXCEPT
                   !.cloned = TRUE, !.op = "clone",
                   !.frame = Value(heap.cells, heap.original)]
    /\ nextId' = nextId + 1
    /\ UNCHANGED <<docVars, builderVars, ai, registryVars, factoryVars, director, engineVars>>

CloneInit ==
    /\ DocIdle
    /\ BuilderIdle
    /\ nextId = 1
    /\ ServiceIdle

CloneNext ==
    \/ MutateVal
    \/ MutateItems
    \/ Clone

SpecClone == CloneInit /\ [][CloneNext]_vars

\* equality of what two documents hold, a property with the value undefined
\* counting as absent (Jest's toEqual, which the repository's tests use)
StructurallyEqual(v, w) ==
    \A f \in Fields :
        /\ (IF v[f].hasVal THEN v[f].val ELSE Undefined)
             = (IF w[f].hasVal THEN w[f].val ELSE Undefined)
        /\ v[f].elems = w[f].elems

Returned(slide) ==
    /\ doc' = slide
    /\ docCleared' = FALSE
    /\ docOp' = "returned"

\* const D = builder.getResult()
KeepResult ==
    /\ Room(1)
    /\ \E r \in {getResult(builder)} :
          /\ Call("getResult", "", Ok(r))
          /\ Returned(r.slide)
    /\ UNCHANGED <<nextId, serviceVars>>

\* const D = director.buildBasicSlide(data)
KeepBasicSlide ==
    \E data \in {GoodData, BlankData} :
        /\ builder.kind \in DirectorKinds
        /\ Len(director.invoked) < MaxCalls
        /\ \E r \in {Ensured(buildBasicSlide(builder, data, nextId))} :
              /\ DirectorEffect("buildBasicSlide", r, <<data>>, NoContext)
              /\ IF r.error = "none" THEN Returned(r.returned[1])
                 ELSE UNCHANGED docVars
        /\ nextId' = nextId + 1
        /\ UNCHANGED <<ai, registryVars, factoryVars, heap, engineVars>>

\* a builder of any of the classes and a director holding it
SnapshotInit ==
    /\ DocIdle
    /\ \E k \in BuilderKinds : builder = NewBuilder(k, 0)
    /\ lastOp = "new"
    /\ lastArg = ""
    /\ raised = "none"
    /\ nextId = 1
    /\ AiIdle /\ RegistryIdle /\ FactoryIdle /\ HeapIdle /\ EngineIdle
    /\ director = NewDirector(PatternsDirector, TRUE)

SnapshotNext ==
    \/ Reset
    \/ SetTitle
    \/ SetContent
    \/ KeepResult
    \/ KeepBasicSlide

SpecSnapshot == SnapshotInit /\ [][SnapshotNext]_vars

\* C21: once getResult() or a Director sequence has returned document D, no
\* later operation on the same builder or Director changes a field of D:
\* as long as the builder still holds the object it returned, the object's
\* fields are those it had at the return.
C21_ReturnedIsTerminal ==
    (docOp = "returned" /\ builder.slide.id = doc.id) => builder.slide = doc


\* C22: every conversational document for which getResult() reports
\* isValid = true is within the conversational builder's content limits: at
\* least one turn and at most the maximum, every turn's text at most 280
\* characters, and the total duration between the floor (5 s) and the
\* ceiling (90 s).
C22_ValidWithinLimits ==
    (lastOp = "getResult" /\ IsDialogue /\ builder.slide.validation.isValid)
      => LET c == builder.slide.content
         IN /\ Len(c.messages) >= 1
            /\ Len(c.messages) <= MaxMessagesAdvised
            /\ \A i \in 1..Len(c.messages) :
                  TextLength(c.messages[i].text) <= MaxMessageChars
            /\ c.duration >= MinDurationAdvised
            /\ c.duration <= MaxDurationAdvised


\* C23: the duration of the aggregate accounts for every turn: after an
\* addMessage call, duration >= timestamp + 50 ms x character count for
\* every message of the dialogue.
C23_DurationCoversEveryTurn ==
    (IsDialogue /\ lastOp = "addMessage" /\ raised = "none")
      => LET d == builder.dialogueContent
         IN \A i \in 1..Len(d.messages) :
               d.duration >= d.messages[i].timestamp
                               + ReadingTimePerChar * TextLength(d.messages[i].text)


\* ------------------------------- SpecAdvanced: the Advanced sequence alone
\* a rule that requires content.watermark
WatermarkRule == Rule("Watermark required", "watermark")

AdvancedKinds == {"text", "test", PassThroughKind}
AdvancedData == {GoodData, BlankData, MarkedData}
AdvancedRules ==
    {<<WatermarkRule>>, <<Rule("Rule A", "false"), WatermarkRule>>,
     <<WatermarkRule, Rule("Rule B", "throws")>>}
AdvancedContexts ==
    {NoContext, Watermarked}
      \cup {[ctx EXCEPT !.hasRules = TRUE, !.validationRules = rl] :
               ctx \in {NoContext, Watermarked}, rl \in AdvancedRules}

\* new SlideDirector(builder) / new SlideDirector() of patterns/SlideDirector.js
AdvancedInit ==
    /\ DocIdle
    /\ \E k \in AdvancedKinds : builder = NewBuilder(k, 0)
    /\ lastOp = "new"
    /\ lastArg = ""
    /\ raised = "none"
    /\ nextId = 1
    /\ AiIdle /\ RegistryIdle /\ FactoryIdle /\ HeapIdle /\ EngineIdle
    /\ \E has \in BOOLEAN : director = NewDirector(PatternsDirector, has)

AdvancedNext ==
    \/ SetBuilder
    \/ BuildAdvancedSlide(AdvancedData, AdvancedContexts)
    \/ ClearHistory

SpecAdvanced == AdvancedInit /\ [][AdvancedNext]_vars

\* the history entry of the last call
LastEntry == director.constructionHistory[Len(director.constructionHistory)]

MutatingCalls == {"setTitle", "setSubtitle", "setContent", "setLayout", "setStyle"}

\* C25: for every concrete builder, each mutating builder call that returns
\* appends exactly one step, naming the call, to the builder's step log.
C25_EveryCallLogged ==
    [][\A op \in MutatingCalls :
          (lastOp' = op /\ raised' = "none")
            => builder'.buildSteps = Append(builder.buildSteps, op)]_vars


\* C28: the content of the document the aggregate-based DialogueSlideBuilder
\* returns from getResult() reflects the builder's current aggregate:
\* messages, speakers, message count and duration are the aggregate's at the
\* moment of the call, also after an earlier getResult() or finalize().
C28_ResultReflectsAggregate ==
    (builder.kind = "dialogue" /\ lastOp = "getResult" /\ raised = "none")
      => LET c == builder.slide.content
             d == builder.dialogueContent
         IN /\ c.messages = d.messages
            /\ c.speakers = d.speakers
            /\ c.messageCount = Len(d.messages)
            /\ c.duration = d.duration

\* C30: the default builders BuilderFactory resolves (text, chart) complete
\* the Director sequences without the base class's "Must implement ..."
\* error: buildStyledSlide and buildAdvancedSlide with a non-empty subtitle
\* return a document whose subtitle is the one supplied.
C30_DefaultBuildersTakeSubtitle ==
    (/\ IsPatterns
     /\ director.hasBuilder
     /\ builder.kind \in {"text", "chart"}
     /\ director.op \in {"buildStyledSlide", "buildAdvancedSlide"}
     /\ director.slidesData # <<>>
     /\ ~director.slidesData[1].isNull
     /\ director.slidesData[1].subtitle # "")
      => /\ director.error = "none"
         /\ director.returned # <<>>
         /\ director.returned[1].subtitle = director.slidesData[1].subtitle


\* --------------------------------- SpecTemplate: template resolution
DataKeys == {"name", "count"}
DataValues == {Str("John"), Str(""), Num("3"), Num("0")}

\* the data records: each key absent or bound to one of the values
DataRecords == UNION {[keys -> DataValues] : keys \in SUBSET DataKeys}

Greeting == <<Lit("Welcome "), Hole("name")>>
Counting == <<Hole("name"), Lit(" has "), Hole("count"), Lit(" items")>>

StringTemplates == {TString(Greeting), TString(Counting), TString(<<Lit("Plain")>>)}

\* {text: '...'} as in the repository's test, and an object with a nested
\* object {text: '...', footer: {caption: '...'}}
ObjectTemplates ==
    {TObject([text |-> TString(Greeting)]),
     TObject([text |-> TString(Greeting),
              footer |-> TObject([caption |-> TString(Counting)])]),
     TObject([text |-> TFunction("greet")])}

TemplateValues == StringTemplates \cup {TFunction("greet"), TOther}

\* this.processTemplate(template.titleTemplate, data)
ProcessTemplate ==
    \E template \in TemplateValues, data \in DataRecords :
        /\ resolved' = [op |-> "processTemplate", template |-> template, data |-> data,
                        result |-> processTemplateValue(template, data)]
        /\ UNCHANGED <<docVars, nextId, builderVars, ai, registryVars, factoryVars,
                       director, heap, engine>>

\* this.processContentTemplate(template.contentTemplate, data)
ProcessContentTemplate ==
    \E template \in TemplateValues \cup ObjectTemplates, data \in DataRecords :
        /\ resolved' = [op |-> "processContentTemplate", template |-> template,
                        data |-> data,
                        result |-> processContentTemplateValue(template, data)]
        /\ UNCHANGED <<docVars, nextId, builderVars, ai, registryVars, factoryVars,
                       director, heap, engine>>

TemplateInit ==
    /\ DocIdle
    /\ BuilderIdle
    /\ ServiceIdle
    /\ nextId = 1

TemplateNext ==
    \/ ProcessTemplate
    \/ ProcessContentTemplate

SpecTemplate == TemplateInit /\ [][TemplateNext]_vars

\* the reference substitution: every placeholder whose key is present in the
\* data record is replaced by the record's value, at every nesting depth
ReferenceString(tokens, data) ==
    [i \in 1..Len(tokens) |->
        IF tokens[i].isKey /\ tokens[i].text \in DOMAIN data
        THEN Lit(data[tokens[i].text].str)
        ELSE tokens[i]]

RECURSIVE ReferenceSubstitution(_, _)
ReferenceSubstitution(template, data) ==
    CASE template.kind = "function" -> Invoke(template.fn, data)
      [] template.kind = "string" -> TString(ReferenceString(template.tokens, data))
      [] template.kind = "object" ->
           TObject([key \in DOMAIN template.fields |->
                       ReferenceSubstitution(template.fields[key], data)])
      [] OTHER -> template

\* C26: template resolution equals the reference substitution: in a string
\* template every {{key}} whose key is present in the data record is replaced
\* by the record's value (0 and the empty string included) and the others are
\* left unchanged; a function-valued template is invoked on the data record;
\* an object-shaped content template is substituted field by field at every
\* nesting depth.
C26_TemplateResolution ==
    resolved.op \in {"processTemplate", "processContentTemplate"}
      => resolved.result = ReferenceSubstitution(resolved.template, resolved.data)


\* ------------------------------------ SpecEngine: SlideEngine requests
MaxRegistrations == 2   \* registerTenant calls in one run

\* the config argument of SlideEngine.registerTenant
EngineConfig(customBuilder, styleType, columns, watermark, rules) ==
    [customBuilders |->
         [k \in {"text", "dialogue"} |-> IF k = "text" THEN customBuilder ELSE "absent"],
     styleType |-> styleType, primary |-> "#003366", defaultColumns |-> columns,
     validationRules |-> rules,
     requiresWatermark |-> watermark # "", watermark |-> watermark]

EngineConfigs ==
    {EngineConfig("absent", "corporate", 3, "ACME", <<>>),
     EngineConfig("CustomBuilder", "custom", 0, "", <<WatermarkRule>>),
     EngineConfig("absent", "", 0, "", <<>>)}

\* code supplied by the tenant is running inside generateSlide: the
\* constructor of its custom builder (TenantConfiguration.getCustomBuilder) or
\* of its custom style strategy (StrategyFactory.createStyleStrategy)
TenantCodeRuns ==
    \/ engine.pc = "builder" /\ engine.instance = "CustomBuilder"
    \/ engine.pc = "style" /\ engine.styleStrategy.class = "custom"

\* SlideEngine.registerTenant(tenantId, config), called between requests or
\* from tenant code that a request runs
EngineRegisterTenant ==
    \E tenantId \in TenantIds, config \in EngineConfigs :
        /\ engine.pc \in {"idle", "done"} \/ TenantCodeRuns
        /\ engine.registrations < MaxRegistrations
        /\ tenants' = [tenants EXCEPT ![tenantId] =
                          EngineTenantConfiguration(config, engine.registrations + 1)]
        /\ engine' = [engine EXCEPT !.registrations = @ + 1]
        /\ UNCHANGED <<docVars, nextId, builderVars, ai, registryVars, made,
                       director, heap, resolved>>

\* TenantRegistry.removeTenant(tenantId), likewise
EngineRemoveTenant ==
    \E tenantId \in TenantIds :
        /\ engine.pc \in {"idle", "done"} \/ TenantCodeRuns
        /\ tenants[tenantId].registered
        /\ tenants' = [tenants EXCEPT ![tenantId] = NoTenant]
        /\ UNCHANGED <<docVars, nextId, builderVars, ai, registryVars, made,
                       director, heap, engineVars>>

\* generateSlide, up to and including BuilderFactory.createBuilder(type, tenantId)
GenerateSlideBuilder ==
    \E tenantId \in TenantIds, withId \in BOOLEAN, layoutType \in {"", "multi-column"} :
        LET request == SlideRequest("text", tenantId,
                                    [GoodData EXCEPT !.tenantId =
                                                        IF withId THEN tenantId ELSE ""],
                                    layoutType)
            out == createBuilder(tenants, request.type, tenantId)
        IN /\ engine.pc \in {"idle", "done"}
           /\ Len(director.invoked) < MaxCalls
           /\ engine' = [engine EXCEPT
                           !.pc = "builder", !.request = request,
                           !.instance = out.instance,
                           !.reads = <<RegistrationOf(getTenant(tenants, tenantId))>>]
           /\ UNCHANGED <<docVars, nextId, builderVars, ai, registryVars, factoryVars,
                          director, heap, resolved>>

\* StrategyFactory.createStyleStrategy(tenantId)
GenerateSlideStyle ==
    LET tenantId == engine.request.tenantId
    IN /\ engine.pc = "builder"
       /\ engine' = [engine EXCEPT
                       !.pc = "style",
                       !.styleStrategy = createStyleStrategy(tenants, tenantId),
                       !.reads = Append(@, RegistrationOf(getTenant(tenants, tenantId)))]
       /\ UNCHANGED <<docVars, nextId, builderVars, ai, registryVars, factoryVars,
                      director, heap, resolved>>

\* StrategyFactory.createLayoutStrategy(data.layoutType, tenantId)
GenerateSlideLayout ==
    LET tenantId == engine.request.tenantId
    IN /\ engine.pc = "style"
       /\ engine' = [engine EXCEPT
                       !.pc = "layout",
                       !.layoutStrategy =
                           createLayoutStrategy(tenants, engine.request.layoutType, tenantId),
                       !.reads = Append(@, RegistrationOf(getTenant(tenants, tenantId)))]
       /\ UNCHANGED <<docVars, nextId, builderVars, ai, registryVars, factoryVars,
                      director, heap, resolved>>

\* the rest of generateSlide: TenantRegistry.getTenant(tenantId), the tenant
\* context, director.setBuilder(builder) and buildAdvancedSlide(data, context)
GenerateSlideBuild ==
    LET tenant == getTenant(tenants, engine.request.tenantId)
        ctx == EngineContext(engine.styleStrategy, engine.layoutStrategy, tenant)
        data == engine.request.data
    IN /\ engine.pc = "layout"
       /\ \E r \in {buildAdvancedSlide(NewBuilder(KindOf(engine.instance), nextId),
                                       data, ctx, nextId + 1)} :
             /\ builder' = r.b
             /\ lastOp' = "buildAdvancedSlide"
             /\ lastArg' = ""
             /\ raised' = r.error
             /\ director' = DirectorAfter([director EXCEPT !.hasBuilder = TRUE],
                                          "buildAdvancedSlide", r, <<data>>, ctx)
       /\ engine' = [engine EXCEPT !.pc = "done",
                                   !.reads = Append(@, RegistrationOf(tenant))]
       /\ nextId' = nextId + 2
       /\ UNCHANGED <<docVars, ai, registryVars, factoryVars, heap, resolved>>

\* new SlideEngine(), no tenant registered
EngineInit ==
    /\ DocIdle
    /\ BuilderIdle
    /\ ServiceIdle
    /\ nextId = 1

EngineNext ==
    \/ EngineRegisterTenant
    \/ EngineRemoveTenant
    \/ GenerateSlideBuilder
    \/ GenerateSlideStyle
    \/ GenerateSlideLayout
    \/ GenerateSlideBuild

SpecEngine == EngineInit /\ [][EngineNext]_vars

\* C27: a generateSlide request is built from one consistent tenant
\* configuration even when registerTenant / removeTenant for its tenant id
\* runs between the request's registry reads: the builder, the strategies
\* and the tenant context of a returned request all come from the same
\* registration of the tenant.
C27_OneRegistrationPerRequest ==
    engine.pc = "done"
      => \A i, j \in 1..Len(engine.reads) : engine.reads[i] = engine.reads[j]

\* C29: every document generateSlide produces for a request with tenant id T
\* carries metadata.tenantId = T, whether or not the request's data record
\* repeats the tenant id.
C29_TenantIdBound ==
    (engine.pc = "done" /\ director.error = "none")
      => director.returned[1].metadata.tenantId = engine.request.tenantId

====
